---------------------------- MODULE Spec2Model ----------------------------
(***************************************************************************)
(* A model of the drone agent's control skeleton:                          *)
(*   - UAVExecutor.execute           (src/src/uav_executor.py)             *)
(*   - MissionController.run         (src/src/mission_controller.py)       *)
(*   - MissionExecutor.execute_plan  (src/src2/executor.py) over the tools *)
(*     of UAVToolRegistry (src/src2/tools_registry.py) and the pydantic    *)
(*     contracts of src/src2/schemas.py                                    *)
(*   - DroneContextManager and NaturalLanguageCommander.parse_instruction  *)
(*     (src/src/context_manager.py, src/src/nlp_commander.py)              *)
(*   - NLPCommander.generate_plan    (src/src2/commander.py)               *)
(*                                                                         *)
(* Python values are records tagged by their type in field t.  A Python    *)
(* str is a tuple of one-character strings, so that startswith, lower and  *)
(* substring tests are computed and not assumed.  Floats are modelled by   *)
(* integers.  The actuation client (UAVAPIClient) and the language model   *)
(* are the environment: each call draws its outcome from a small set.      *)
(***************************************************************************)
EXTENDS Integers, Sequences, FiniteSets, TLC

VARIABLES
    \* ---- UAVExecutor used on its own (SpecDispatch)
    d_n,                    \* number of execute() calls made so far
    d_last,                 \* the last call: its inputs and its outcome
    \* ---- MissionController (Spec)
    pc,                     \* position in run(): "start", "loop", "returned", "raised"
    mission_completed,      \* self.mission_completed
    llm_conversation_count, \* self.llm_conversation_count
    ticks,                  \* iterations of the while loop started so far
    c_tick,                 \* what the last iteration read and did
    c_log,                  \* the record handed to _save_llm_log by the last oracle call
    c_ready,                \* what get_drone_status did when _check_ready asked
    c_files,                \* the file names _save_llm_log has opened in this session
    \* ---- MissionExecutor (SpecPlan)
    p_plan,                 \* the MissionPlan handed to execute_plan
    p_i,                    \* index of the next step of the for loop (1-based)
    p_attempts,             \* the steps handed to _execute_single_step, in order: index, result,
                            \* and what the client method would do (return or raise)
    p_client,               \* client methods invoked so far, in order
    p_sleeps,               \* number of time.sleep(step_delay) calls
    p_result,               \* "running", "true", "false" or "raised"
    g_last,                 \* the last NLPCommander.generate_plan call and what it returned
    \* ---- pydantic validation used on its own (SpecValidate)
    v_n,                    \* number of validations made so far
    v_last,                 \* the last validation: input and outcome
    w_last,                 \* the last plan sent over the wire: the plan, the JSON, the plan read back
    \* ---- DroneContextManager + NaturalLanguageCommander (SpecNlp)
    drone_map,              \* DroneContextManager.drone_map, in insertion order
    drone_info_summary,     \* DroneContextManager.drone_info_summary (its lines)
    r_last,                 \* the last refresh(): what list_drones did, and how refresh ended
    q_last,                 \* the last get_id_by_name(): the query, the map then, the result
    n_count,                \* NaturalLanguageCommander.llm_conversation_count
    n_last,                 \* the last parse_instruction call: result, log, and the map then
    n_printed               \* steps printed by the last execute_parsed_mission

dispVars == <<d_n, d_last>>
ctlVars  == <<pc, mission_completed, llm_conversation_count, ticks, c_tick, c_log, c_ready,
              c_files>>
planVars == <<p_plan, p_i, p_attempts, p_client, p_sleeps, p_result, g_last>>
valVars  == <<v_n, v_last, w_last>>
nlpVars  == <<drone_map, drone_info_summary, r_last, q_last, n_count, n_last, n_printed>>
vars     == <<dispVars, ctlVars, planVars, valVars, nlpVars>>

-----------------------------------------------------------------------------
(* Bounds of the model *)

MaxCalls == 2        \* execute() calls in a run of SpecDispatch

-----------------------------------------------------------------------------
(* Python values *)

PyNone  == [t |-> "None"]
Str(cs) == [t |-> "str", s |-> cs]
Num(k)  == [t |-> "num", n |-> k]
IsStr(x)  == x.t = "str"
IsNone(x) == x.t = "None"

\* str.startswith(c) for a one-character prefix c
StartsWith(x, c) == Len(x.s) >= 1 /\ x.s[1] = c

\* A dict whose keys are parameter names; PyList stands for any value that is
\* not a mapping.
Dict(f) == [t |-> "dict", d |-> f]
List(l) == [t |-> "list", l |-> l]
Bool(b) == [t |-> "bool", b |-> b]
PyList  == List(<<Num(1)>>)
EmptyDict == Dict(<<>>)
IsDict(x) == x.t = "dict"
Keys(x)   == DOMAIN x.d

\* A text whose characters play no part: a fixed prefix put before a message.
ErrText(prefix, msg) == [t |-> "text", prefix |-> prefix, msg |-> msg]
Text(v) == ErrText("", v)

\* dict.get(k, default)
Get(x, k, default) == IF k \in Keys(x) THEN x.d[k] ELSE default

\* one optional entry of a dict: nothing when the key is absent
Absent == [t |-> "absent"]
Entry(k, v) == IF v = Absent THEN <<>> ELSE (k :> v)

\* bool(x), as `if x:` and `not x` compute it
Truthy(x) ==
    CASE x.t = "None" -> FALSE
      [] x.t = "bool" -> x.b
      [] x.t = "num"  -> x.n # 0
      [] x.t = "str"  -> Len(x.s) > 0
      [] x.t = "text" -> (x.prefix \o x.msg) # ""
      [] x.t = "list" -> Len(x.l) > 0
      [] x.t = "dict" -> Keys(x) # {}
      [] OTHER        -> TRUE

\* capability names used by the repository and by its self-tests
n_take_off == Str(<<"t","a","k","e","_","o","f","f">>)
n_land == Str(<<"l","a","n","d">>)
n_move_to == Str(<<"m","o","v","e","_","t","o">>)
n_return_home == Str(<<"r","e","t","u","r","n","_","h","o","m","e">>)
n_get_drone_status == Str(<<"g","e","t","_","d","r","o","n","e","_","s","t","a","t","u","s">>)
n_list_drones == Str(<<"l","i","s","t","_","d","r","o","n","e","s">>)
n_avoid_obstacle == Str(<<"a","v","o","i","d","_","o","b","s","t","a","c","l","e">>)
n_record_data == Str(<<"r","e","c","o","r","d","_","d","a","t","a">>)
n_destroy_world == Str(<<"d","e","s","t","r","o","y","_","w","o","r","l","d">>)
n_dance_in_the_air == Str(<<"d","a","n","c","e","_","i","n","_","t","h","e","_","a","i","r">>)
n_base_url == Str(<<"b","a","s","e","_","u","r","l">>)
n_dunder_init == Str(<<"_","_","i","n","i","t","_","_">>)
n_dunder_dict == Str(<<"_","_","d","i","c","t","_","_">>)
n_ghost == Str(<<"_","g","h","o","s","t">>)
n_empty == Str(<<>>)
n_get_targets == Str(<<"g","e","t","_","t","a","r","g","e","t","s">>)

-----------------------------------------------------------------------------
(* The actuation client, UAVAPIClient.  Its source is not part of the      *)
(* repository's files; what the model takes from it is the set of names    *)
(* its callers use and the keyword parameters they pass.                   *)

\* public methods of the client; get_targets is one that the capability probe
\* calls (tests/api/test_capabilities.py line 62) and that no tool of the
\* registry wraps
ClientCallables ==
    {n_take_off, n_land, n_move_to, n_return_home, n_get_drone_status, n_list_drones,
     n_get_targets}

\* attributes of the client that are not callable: the base URL the constructor
\* is given, and the instance dictionary every Python object has
ClientProperties == {n_base_url, n_dunder_dict}

\* the dispatcher without its existence check
HasAttrAlways(name) == TRUE

\* hasattr(self.client, name)
HasAttr(name) == name \in ClientCallables \cup ClientProperties \cup {n_dunder_init}

\* callable(getattr(self.client, name))
Callable(name) == name \in ClientCallables \cup {n_dunder_init}

\* keyword parameters of each client method: required ones and ones with a default
Signature(name) ==
    CASE name = n_take_off         -> [required |-> {"drone_id"}, optional |-> {"altitude"}]
      [] name = n_move_to          -> [required |-> {"drone_id", "x", "y", "z"}, optional |-> {}]
      [] name = n_list_drones      -> [required |-> {}, optional |-> {}]
      [] name = n_get_targets      -> [required |-> {}, optional |-> {}]
      [] name = n_dunder_init      -> [required |-> {}, optional |-> {"base_url"}]
      [] OTHER                     -> [required |-> {"drone_id"}, optional |-> {}]

\* Python's binding of f(**kw) to a signature: "ok", or the TypeError it raises
Bind(sig, kw) ==
    IF ~IsDict(kw) THEN "argument after ** must be a mapping"
    ELSE IF ~(sig.required \subseteq Keys(kw)) THEN "missing required argument"
    ELSE IF ~(Keys(kw) \subseteq sig.required \cup sig.optional)
         THEN "unexpected keyword argument"
    ELSE "ok"

\* What the body of a client method does once entered: it returns a payload or
\* raises.  A TypeError can come from the body as well as from the binding.
Returns(data)    == [kind |-> "return", data |-> data]
Raises(cls, msg) == [kind |-> "raise", cls |-> cls, msg |-> msg]
ErrorClasses     == {"TypeError", "ConnectionError"}
ErrorMessages    == {"unsupported operand type(s)", "HTTP 500"}

-----------------------------------------------------------------------------
(* UAVExecutor (src/src/uav_executor.py) *)

AccessDeniedText      == ErrText("Access denied to private methods.", "")
NotSupportedText(nm)  == ErrText("Function not supported by UAV Client: ", nm.s)
NotCallableText(nm)   == ErrText("is a property, not a function: ", nm.s)
ArgumentMismatchPrefix == "Argument mismatch: "

\* the result dict as the docstring of execute describes it (lines 41-47): the
\* payload under the key result
FormatResultAsDocumented(success, action, result, error) ==
    [success |-> success, action |-> action, result |-> result, error |-> error]

\* UAVExecutor._format_result
FormatResult(success, action, result, error) ==
    [success |-> success, action |-> action, data |-> result, error |-> error]

\* The outcome of one execute() call: the dict it returns, or the exception that
\* leaves it; called: func(**params) was evaluated; entered: the body ran.
Returned(res, called, entered) ==
    [raised |-> "", result |-> res, called |-> called, entered |-> entered]
Propagated(cls) ==
    [raised |-> cls, result |-> PyNone, called |-> FALSE, entered |-> FALSE]

\* lines 84-87: the handler for every other exception keeps str(e) as it is
ExecuteOtherError(func_name, body) ==
    Returned(FormatResult(FALSE, func_name, PyNone, ErrText("", body.msg)), TRUE, TRUE)

\* lines 78-82: the handler for TypeError
ExecuteTypeError(func_name, msg, entered) ==
    Returned(FormatResult(FALSE, func_name, PyNone, ErrText(ArgumentMismatchPrefix, msg)),
             TRUE, entered)

\* lines 69-87: the call inside the try block
ExecuteCallClient(func_name, params, body) ==
    LET b == Bind(Signature(func_name), params) IN
    IF b # "ok" THEN ExecuteTypeError(func_name, b, FALSE)
    ELSE IF body.kind = "return"
         THEN Returned(FormatResult(TRUE, func_name, body.data, PyNone), TRUE, TRUE)
    ELSE IF body.cls = "TypeError" THEN ExecuteTypeError(func_name, body.msg, TRUE)
    ELSE ExecuteOtherError(func_name, body)

\* the dispatcher without its check for private names
ExecutePrivateCheckDropped(func_name) == FALSE

\* lines 54-56: the check for private names, made before the lookup
ExecutePrivateCheck(func_name) == StartsWith(func_name, "_")

\* UAVExecutor.execute(func_name, params); body is what the client method does if
\* it is entered
Execute(func_name, params, body) ==
    LET p == IF IsNone(params) THEN EmptyDict ELSE params IN
    IF ~IsStr(func_name) THEN Propagated("AttributeError")
    ELSE IF ExecutePrivateCheck(func_name)
         THEN Returned(FormatResult(FALSE, func_name, PyNone, AccessDeniedText), FALSE, FALSE)
    ELSE IF ~HasAttr(func_name)
         THEN Returned(FormatResult(FALSE, func_name, PyNone, NotSupportedText(func_name)),
                       FALSE, FALSE)
    ELSE IF ~Callable(func_name)
         THEN Returned(FormatResult(FALSE, func_name, PyNone, NotCallableText(func_name)),
                       FALSE, FALSE)
    ELSE ExecuteCallClient(func_name, p, body)

\* ---- inputs of the dispatcher model
DispatchNames ==
    {n_take_off, n_move_to, n_get_drone_status, n_list_drones, n_avoid_obstacle,
     n_destroy_world, n_dance_in_the_air, n_base_url, n_dunder_init, n_dunder_dict,
     n_ghost, n_empty, n_get_targets, PyNone}

DispatchParams ==
    {PyNone, PyList, EmptyDict,
     Dict([drone_id |-> Str(<<"d","1">>)]),
     Dict([drone_id |-> Str(<<"d","1">>), altitude |-> Num(10)]),
     Dict([drone_id |-> Str(<<"d","1">>), position |-> Num(0)])}

DispatchBodies ==
    {Returns(Dict([status |-> Text("ok")]))}
    \cup {Raises(c, m) : c \in ErrorClasses, m \in ErrorMessages}
    \cup {Raises("ConnectionError", "")}

NoCall == [func_name |-> PyNone, params |-> PyNone, body |-> Returns(PyNone),
           out |-> Propagated("")]

InitDispatch == d_n = 0 /\ d_last = NoCall

\* one call of UAVExecutor.execute by a caller of the executor
ExecuteCall ==
    /\ d_n < MaxCalls
    /\ \E f \in DispatchNames, p \in DispatchParams, b \in DispatchBodies :
          d_last' = [func_name |-> f, params |-> p, body |-> b, out |-> Execute(f, p, b)]
    /\ d_n' = d_n + 1
    /\ UNCHANGED <<ctlVars, planVars, valVars, nlpVars>>

-----------------------------------------------------------------------------
(* MissionController (src/src/mission_controller.py) *)

DroneId == Str(<<"4","8","7","b","c","0","b","6">>)

\* ---- the language model and JsonOutputParser.parse

\* a text that is overwritten by each chunk and not added to
LastChunkOnly(chunks) == IF chunks = <<>> THEN "" ELSE chunks[Len(chunks)]

\* full_content: the chunks of the stream joined in arrival order (line 171)
RECURSIVE Concat(_)
Concat(chunks) == IF chunks = <<>> THEN "" ELSE Head(chunks) \o Concat(Tail(chunks))

\* JsonOutputParser.parse on the complete texts the model's oracle can produce;
\* any other text raises OutputParserException
ParseJson(raw) ==
    CASE raw = "{\"x\":10,\"y\":20,\"z\":5}" ->
            [ok |-> TRUE, value |-> Dict([x |-> Num(10), y |-> Num(20), z |-> Num(5)])]
      [] raw = "{\"x\":10}" -> [ok |-> TRUE, value |-> Dict([x |-> Num(10)])]
      [] raw = "{}"         -> [ok |-> TRUE, value |-> EmptyDict]
      [] raw = "null"       -> [ok |-> TRUE, value |-> PyNone]
      [] raw = "[1,2]"      -> [ok |-> TRUE, value |-> List(<<Num(1), Num(2)>>)]
      [] OTHER              -> [ok |-> FALSE, value |-> PyNone]

\* One answer of the language model: the chunks it streams, and whether the
\* stream raises after them (a transport failure).
Answer(chunks, fails) == [chunks |-> chunks, fails |-> fails]
OracleAnswers ==
    {Answer(<<"{\"x\":10,", "\"y\":20,\"z\":5}">>, FALSE),
     Answer(<<"{\"x\":10}">>, FALSE),
     Answer(<<"{}">>, FALSE),
     Answer(<<"null">>, FALSE),
     Answer(<<"[1,2]">>, FALSE),
     Answer(<<"I suggest ", "going north">>, FALSE),
     Answer(<<"{\"x\":10}">>, TRUE),
     Answer(<<>>, TRUE)}
NoAnswer == Answer(<<>>, FALSE)

\* ---- the interaction log

\* str(n) for a natural number: its decimal digits
Digit(k) == <<"0", "1", "2", "3", "4", "5", "6", "7", "8", "9">>[k + 1]
RECURSIVE Decimal(_)
Decimal(n) == IF n < 10 THEN <<Digit(n)>> ELSE Append(Decimal(n \div 10), Digit(n % 10))

\* the format specification 0{width}d: zeros are put in front of a text that
\* is shorter than the width, and a longer text is kept whole
RECURSIVE ZeroPad(_, _)
ZeroPad(digits, width) ==
    IF Len(digits) >= width THEN digits ELSE ZeroPad(<<"0">> \o digits, width)

DialogueSuffix == "_dialogue.json"
NlpParseSuffix == "_nlp_parse.json"

\* mission_controller.py line 210, nlp_commander.py line 155: the file name
\* inside the session's directory, f"{count:03d}" followed by the suffix
LogFileName(count, suffix) == [number |-> ZeroPad(Decimal(count), 3), suffix |-> suffix]
NoFile == [number |-> <<>>, suffix |-> ""]

\* a save that lets the failure of the write out
SaveLlmLogPropagates(count, suffix, logOk) ==
    [file |-> LogFileName(count, suffix), written |-> logOk,
     raised |-> IF logOk THEN "" ELSE "OSError"]

\* _save_llm_log (mission_controller.py lines 209-217, nlp_commander.py lines
\* 154-161): the file is named after the counter; logOk: open and json.dump
\* succeed.  A failure is caught and printed.
SaveLlmLog(count, suffix, logOk) ==
    [file |-> LogFileName(count, suffix), written |-> logOk, raised |-> ""]

\* a counter that is not moved
DialogueIdKept(count) == count

\* mission_controller.py line 119, nlp_commander.py line 42: the counter is
\* moved at the start of the call
NextDialogueId(count) == count + 1

\* lines 142-152: the log entry as initialised; file and written are what
\* _save_llm_log did with it
NewLogEntry(id) ==
    [dialogue_id |-> id, raw_response |-> PyNone, parsed_output |-> PyNone,
     success |-> FALSE, error_message |-> PyNone, written |-> FALSE, file |-> NoFile]

\* a degraded answer that is the default position and not the current one
FallbackOrigin(current_pos) ==
    [raised |-> "", value |-> Dict([x |-> Num(0), y |-> Num(0), z |-> Num(0)])]

\* line 199: the degraded answer, built from current_pos; KeyError when a
\* coordinate is missing
FallbackResult(current_pos) ==
    IF {"x", "y", "z"} \subseteq Keys(current_pos)
    THEN [raised |-> "", value |-> Dict([x |-> current_pos.d["x"], y |-> current_pos.d["y"],
                                          z |-> current_pos.d["z"]])]
    ELSE [raised |-> "KeyError", value |-> PyNone]

\* MissionController._ask_llm_for_strategy(current_status), called when the
\* counter holds count; logOk: the write in _save_llm_log succeeds
AskLlmForStrategy(current_status, count, answer, logOk) ==
    LET id          == NextDialogueId(count)
        current_pos == Get(current_status, "position",
                           Dict([x |-> Num(0), y |-> Num(0), z |-> Num(0)]))
        raw         == Concat(answer.chunks)
        parsed      == ParseJson(raw)
        fb          == FallbackResult(current_pos)
        save        == SaveLlmLog(id, DialogueSuffix, logOk)
        entry0      == [NewLogEntry(id) EXCEPT !.written = save.written, !.file = save.file]
    IN  IF ~answer.fails /\ parsed.ok
        THEN [raised |-> save.raised, result |-> parsed.value, count |-> id,
              log |-> [entry0 EXCEPT !.raw_response = Text(raw), !.parsed_output = parsed.value,
                                     !.success = TRUE]]
        ELSE [raised |-> IF save.raised # "" THEN save.raised ELSE fb.raised,
              result |-> fb.value, count |-> id,
              log |-> [entry0 EXCEPT
                         !.raw_response = IF answer.fails THEN PyNone ELSE Text(raw),
                         !.error_message = IF answer.fails THEN Text("stream failed")
                                           ELSE Text("Invalid json output")]]

\* ---- the rules of the loop

BatteryThreshold == 20
DefaultBattery   == 100

\* the comparison of line 53 with the threshold off by one
LowBatteryOffByOne(status) ==
    Get(status, "battery", Num(DefaultBattery)).n < BatteryThreshold - 1

\* a comparison that falls back on the battery_level field of the status
\* payload when the snapshot has no battery field
LowBatteryByLevel(status) ==
    Get(status, "battery", Get(status, "battery_level", Num(DefaultBattery))).n
        < BatteryThreshold

\* line 53
LowBattery(status) == Get(status, "battery", Num(DefaultBattery)).n < BatteryThreshold

\* the test of line 66 reading a key the snapshot does not carry
ObstacleDetectedWrongKey(status) == Truthy(Get(status, "obstacle", Bool(FALSE)))

\* line 66
ObstacleDetected(status) == Truthy(Get(status, "obstacle_detected", Bool(FALSE)))

\* line 74
VisualTargets(status) == Get(status, "visual_targets", List(<<>>))

\* line 68: the avoidance action
AvoidParams == Dict([drone_id |-> DroneId, direction |-> Text("right")])

\* one executor.execute call of the controller, as the tick records it
Dispatch(func_name, params, body) ==
    [func |-> func_name, params |-> params,
     success |-> Execute(func_name, params, body).result.success]

\* what one iteration leaves behind
TickOutcome(exit, calls, flag, oracle, count, log) ==
    [exit |-> exit, calls |-> calls, flag |-> flag, oracle |-> oracle,
     count |-> count, log |-> log]

\* a flag that is set only when the recording succeeded
TargetFlagIfRecorded(moved, recorded) == recorded

\* line 79: the flag is set without a look at the two results
TargetFlag(moved, recorded) == TRUE

\* lines 72-80: the target rule
TargetRule(targets, flag, count, log, b1, b2) ==
    LET first == targets.l[1] IN
    IF "pos" \notin Keys(first)
    THEN TickOutcome("raised", <<>>, flag, FALSE, count, log)
    ELSE LET move == Dispatch(n_move_to,
                              Dict([drone_id |-> DroneId, position |-> first.d["pos"]]), b1)
         IN IF "id" \notin Keys(first)
            THEN TickOutcome("raised", <<move>>, flag, FALSE, count, log)
            ELSE LET rec == Dispatch(n_record_data, Dict([target_id |-> first.d["id"]]), b2)
                 IN  TickOutcome("continue", <<move, rec>>,
                                 TargetFlag(move.success, rec.success), FALSE, count, log)

\* lines 82-97: the exploration rule
ExploreRule(status, flag, count, answer, logOk, b1) ==
    LET ask == AskLlmForStrategy(status, count, answer, logOk)
        nm  == ask.result
    IN  IF ask.raised # ""
        THEN TickOutcome("raised", <<>>, flag, TRUE, ask.count, ask.log)
        ELSE IF ~Truthy(nm)
        THEN TickOutcome("continue", <<>>, flag, TRUE, ask.count, ask.log)
        ELSE IF ~IsDict(nm)
        THEN TickOutcome("raised", <<>>, flag, TRUE, ask.count, ask.log)
        ELSE TickOutcome("continue",
                 <<Dispatch(n_move_to,
                            Dict([drone_id |-> DroneId, x |-> Get(nm, "x", PyNone),
                                  y |-> Get(nm, "y", PyNone), z |-> Get(nm, "z", PyNone)]),
                            b1)>>,
                 flag, TRUE, ask.count, ask.log)

\* _return_home without the break that follows it
ReturnHomeAndGoOn(flag, count, log, b1) ==
    TickOutcome("continue", <<Dispatch(n_return_home, Dict([drone_id |-> DroneId]), b1)>>,
                flag, FALSE, count, log)

\* lines 55-56 and 61-62 with 111-112: _return_home(), then break
ReturnHome(flag, count, log, b1) ==
    TickOutcome("returned", <<Dispatch(n_return_home, Dict([drone_id |-> DroneId]), b1)>>,
                flag, FALSE, count, log)

\* a loop that does not look at the completion flag
TaskCompletedIgnored(flag) == FALSE

\* line 59
TaskCompleted(flag) == flag

\* lines 52-97: the rules in their order, for a non-empty status; flag is
\* self.mission_completed on entry
Decide(status, flag, count, log, answer, logOk, b1, b2) ==
    IF LowBattery(status) THEN ReturnHome(flag, count, log, b1)
    ELSE IF TaskCompleted(flag) THEN ReturnHome(flag, count, log, b1)
    ELSE IF ObstacleDetected(status)
    THEN TickOutcome("continue", <<Dispatch(n_avoid_obstacle, AvoidParams, b1)>>,
             flag, FALSE, count, log)
    ELSE IF Truthy(VisualTargets(status))
    THEN TargetRule(VisualTargets(status), flag, count, log, b1, b2)
    ELSE ExploreRule(status, flag, count, answer, logOk, b1)

\* a test that stops the loop on a missing snapshot only, not on an empty one
StatusIsNone(status) == status = PyNone

\* line 49: not status
NotStatus(status) == ~Truthy(status)

\* lines 104-109: _get_status
GetStatus(body) ==
    LET res == Execute(n_get_drone_status, Dict([drone_id |-> DroneId]), body).result
    IN  IF res.success THEN res.data ELSE EmptyDict

\* lines 99-102: _check_ready; AttributeError when the payload is None
CheckReady(body) ==
    LET res == Execute(n_get_drone_status, Dict([drone_id |-> DroneId]), body).result
    IN  IF ~res.success THEN "not ready"
        ELSE IF ~IsDict(res.data) THEN "raised"
        ELSE IF Get(res.data, "state", PyNone) # Text("error") THEN "ready"
        ELSE "not ready"

\* ---- what the actuation surface can answer

Pos3 == Dict([x |-> Num(1), y |-> Num(2), z |-> Num(10)])
Pos2 == Dict([x |-> Num(1), y |-> Num(2)])
Target1 == Dict([id |-> Text("t1"), pos |-> Dict([x |-> Num(7), y |-> Num(8), z |-> Num(9)])])
Target2 == Dict([id |-> Text("t2"), pos |-> Dict([x |-> Num(4), y |-> Num(5), z |-> Num(6)])])
\* a target as schemas.Target names its fields: position, not pos
TargetSchema == Dict([id |-> Text("t3"), position |-> Pos3])

Batteries   == {Absent, Num(15), Num(19), Num(20)}
Obstacles   == {Absent, Bool(TRUE), Bool(FALSE)}
TargetLists == {Absent, List(<<>>), List(<<Target1>>), List(<<Target2, Target1>>),
                List(<<TargetSchema>>)}
Positions   == {Absent, Pos3, Pos2}

\* the snapshots get_drone_status can return: every combination of battery,
\* obstacle flag and target list at a full position, and the snapshots without
\* a full position (the first of them is the empty snapshot), and the
\* snapshots that report the battery as schemas.DroneStatus names it
\* (battery_level, schemas.py lines 33-45) and carry no battery field
Snapshots ==
    {Dict(Entry("battery", b) @@ Entry("obstacle_detected", o)
          @@ Entry("visual_targets", v) @@ Entry("position", Pos3)) :
       b \in Batteries, o \in Obstacles, v \in TargetLists}
    \cup {Dict(Entry("battery", b) @@ Entry("position", q)) :
            b \in {Absent, Num(20)}, q \in Positions \ {Pos3}}
    \cup {Dict(Entry("battery_level", Num(5)) @@ Entry("obstacle_detected", o)
               @@ Entry("visual_targets", v) @@ Entry("position", Pos3)) :
            o \in {Absent, Bool(TRUE)}, v \in {Absent, List(<<Target1>>)}}

OkBody   == Returns(Dict([status |-> Text("ok")]))
FailBody == Raises("ConnectionError", "HTTP 500")
ActionBodies == {OkBody, FailBody}
StatusBodies == {Returns(sn) : sn \in Snapshots} \cup {Returns(PyNone), FailBody}
\* the answers to the readiness query: the agent's state under the key that
\* _check_ready reads (state) or under the key of schemas.DroneStatus (status)
ReadyBodies  ==
    {Returns(Dict([state |-> Text("idle")])), Returns(Dict([state |-> Text("error")])),
     Returns(Dict([status |-> Text("error")])), Returns(PyNone), FailBody}

\* ---- the controller's state machine

NoLog  == NewLogEntry(0)
\* before _check_ready has asked
NoReady == [kind |-> "none"]
NoTick == [status |-> PyNone, flag_before |-> FALSE, exit |-> "none", calls |-> <<>>,
           oracle |-> FALSE, answer |-> NoAnswer]

MaxTicks == 2

InitController ==
    /\ pc = "start"
    /\ mission_completed = FALSE
    /\ llm_conversation_count = 0
    /\ ticks = 0
    /\ c_tick = NoTick
    /\ c_log = NoLog
    /\ c_ready = NoReady
    /\ c_files = <<>>

\* a run that gives up when the take-off failed
AfterTakeOffChecked(call) == IF call.success THEN "loop" ELSE "aborted"

\* lines 43-46: the result of the take-off is not read; the loop is next
AfterTakeOff(call) == "loop"

\* lines 37-44: the readiness check and the take-off
StartRun ==
    /\ pc = "start"
    /\ \E rb \in ReadyBodies : \E ready \in {CheckReady(rb)} :
         /\ c_ready' = rb
         /\ IF ready = "ready"
            THEN \E b \in ActionBodies :
                 \E call \in {Dispatch(n_take_off,
                                  Dict([drone_id |-> DroneId, altitude |-> Num(10)]), b)} :
                   /\ pc' = AfterTakeOff(call)
                   /\ c_tick' = [NoTick EXCEPT !.exit = "took off", !.calls = <<call>>]
            ELSE /\ pc' = IF ready = "raised" THEN "raised" ELSE "aborted"
                 /\ c_tick' = [NoTick EXCEPT !.exit = ready]
    /\ UNCHANGED <<mission_completed, llm_conversation_count, ticks, c_log, c_files>>
    /\ UNCHANGED <<dispVars, planVars, valVars, nlpVars>>

\* lines 119-168 when the language model accepts the request and sends
\* nothing: the counter has moved, the iteration over self.llm.stream(messages)
\* waits for a chunk, and neither create_llm (llm_service.py lines 68-72) nor
\* the loop sets a time limit that would end the wait
OracleSilent(asks, status) ==
    /\ asks
    /\ pc' = "waiting"
    /\ llm_conversation_count' = NextDialogueId(llm_conversation_count)
    /\ c_tick' = [status |-> status, flag_before |-> mission_completed, exit |-> "waiting",
                  calls |-> <<>>, oracle |-> TRUE, answer |-> NoAnswer]
    /\ UNCHANGED <<mission_completed, c_log, c_files>>

\* lines 46-97: one iteration of the while loop, from the status query to the
\* break, the continue or the sleep that ends it, or to the wait for the
\* language model that nothing ends
Tick ==
    /\ pc = "loop"
    /\ ticks < MaxTicks
    /\ ticks' = ticks + 1
    /\ UNCHANGED c_ready
    /\ \E sb \in StatusBodies : \E status \in {GetStatus(sb)} :
         IF NotStatus(status)
         THEN /\ pc' = "stopped"
              /\ c_tick' = [status |-> status, flag_before |-> mission_completed,
                            exit |-> "stopped", calls |-> <<>>, oracle |-> FALSE,
                            answer |-> NoAnswer]
              /\ UNCHANGED <<mission_completed, llm_conversation_count, c_log, c_files>>
         ELSE \E asks \in {Decide(status, mission_completed, llm_conversation_count,
                                  c_log, NoAnswer, TRUE, OkBody, OkBody).oracle} :
              \/ OracleSilent(asks, status)
              \/ \E answer \in (IF asks THEN OracleAnswers ELSE {NoAnswer}),
                    logOk \in (IF asks THEN BOOLEAN ELSE {TRUE}) :
                 \E n \in {Len(Decide(status, mission_completed, llm_conversation_count,
                                      c_log, answer, logOk, OkBody, OkBody).calls)} :
                 \E b1 \in (IF n >= 1 THEN ActionBodies ELSE {OkBody}),
                    b2 \in (IF n >= 2 THEN ActionBodies ELSE {OkBody}) :
                 \E out \in {Decide(status, mission_completed, llm_conversation_count,
                                    c_log, answer, logOk, b1, b2)} :
                    /\ pc' = IF out.exit = "continue" THEN "loop" ELSE out.exit
                    /\ mission_completed' = out.flag
                    /\ llm_conversation_count' = out.count
                    /\ c_log' = out.log
                    /\ c_files' = IF out.oracle THEN Append(c_files, out.log.file) ELSE c_files
                    /\ c_tick' = [status |-> status, flag_before |-> mission_completed,
                                  exit |-> out.exit, calls |-> out.calls,
                                  oracle |-> out.oracle, answer |-> answer]
    /\ UNCHANGED <<dispVars, planVars, valVars, nlpVars>>

-----------------------------------------------------------------------------
(* The pydantic contracts of src/src2/schemas.py *)

\* One field of a model: its type, whether it must be given, its default, and
\* its strict lower bounds (gt), as a set that is empty when there is none.
Field(name, type, required, default, gt) ==
    [name |-> name, type |-> type, required |-> required, default |-> default, gt |-> gt]

DroneBaseParams == <<Field("drone_id", "str", TRUE, PyNone, {})>>

DefaultAltitude == 10

TakeOffParams ==
    DroneBaseParams \o <<Field("altitude", "float", FALSE, Num(DefaultAltitude), {0})>>

MoveToParams ==
    DroneBaseParams \o <<Field("x", "float", TRUE, PyNone, {}),
                         Field("y", "float", TRUE, PyNone, {}),
                         Field("z", "float", TRUE, PyNone, {})>>

\* ge in place of gt
BoundsOkInclusive(field, k) == \A b \in field.gt : k >= b

\* Field(..., gt=b): the value is strictly greater than every bound
BoundsOk(field, k) == \A b \in field.gt : k > b

\* pydantic's check of one given value: "" or the kind of error
CheckValue(field, v) ==
    IF field.type = "str"
    THEN IF v.t \in {"str", "text"} THEN "" ELSE "string_type"
    ELSE IF v.t # "num" THEN "float_type"
    ELSE IF ~BoundsOk(field, v.n) THEN "greater_than"
    ELSE ""

\* the error of one field for an input dict: "" when the field validates
FieldError(field, input) ==
    IF field.name \in Keys(input) THEN CheckValue(field, input.d[field.name])
    ELSE IF field.required THEN "missing"
    ELSE ""

\* the value a validated model holds for a field
FieldValue(field, input) ==
    IF field.name \in Keys(input) THEN input.d[field.name] ELSE field.default

FieldNames(schema) == {schema[i].name : i \in 1..Len(schema)}
FieldOf(schema, k) == schema[CHOOSE i \in 1..Len(schema) : schema[i].name = k]

\* Model(**input): the validated model, or the ValidationError with the fields
\* it lists.  A value that is not a dict is no input for a model.
Validate(schema, input) ==
    IF ~IsDict(input)
    THEN [ok |-> FALSE, value |-> PyNone, errors |-> {<<"", "model_type">>}]
    ELSE LET errs == {<<schema[i].name, FieldError(schema[i], input)>> :
                        i \in {j \in 1..Len(schema) : FieldError(schema[j], input) # ""}}
         IN  IF errs # {}
             THEN [ok |-> FALSE, value |-> PyNone, errors |-> errs]
             ELSE [ok |-> TRUE, errors |-> {},
                   value |-> Dict([k \in FieldNames(schema) |->
                                      FieldValue(FieldOf(schema, k), input)])]

\* ---- validation used on its own

MaxValidations == 2
MaxAltitude == 11

SymbolicDrone == Str(<<"D","9">>)

TakeOffInputs ==
    {Dict(Entry("drone_id", d) @@ Entry("altitude", a)) :
        d \in {Absent, DroneId, SymbolicDrone, Num(7)},
        a \in {Absent, PyNone, Text("high")} \cup {Num(k) : k \in -MaxAltitude..MaxAltitude}}

NoValidation == [input |-> PyNone, out |-> [ok |-> FALSE, value |-> PyNone, errors |-> {}]]

InitValidate == v_n = 0 /\ v_last = NoValidation

\* TakeOffParams(**input), as test_01_schema_validation calls it
ValidateTakeOff ==
    /\ v_n < MaxValidations
    /\ \E input \in TakeOffInputs :
          v_last' = [input |-> input, out |-> Validate(TakeOffParams, input)]
    /\ v_n' = v_n + 1
    /\ UNCHANGED w_last
    /\ UNCHANGED <<dispVars, ctlVars, planVars, nlpVars>>

-----------------------------------------------------------------------------
(* UAVToolRegistry (src/src2/tools_registry.py) *)

n_get_weather == Str(<<"g","e","t","_","w","e","a","t","h","e","r">>)

\* The tools of get_all_tools that the model uses.  A StructuredTool has an
\* args_schema; a Tool (list_drones, get_weather) has none and takes one input.
StructuredTool(schema, method) == [kind |-> "structured", schema |-> schema, method |-> method]
SimpleTool(method)             == [kind |-> "simple", schema |-> <<>>, method |-> method]

ToolNames ==
    {n_take_off, n_land, n_move_to, n_return_home, n_get_drone_status, n_list_drones,
     n_get_weather}

\* MissionExecutor.tools_map
ToolsMap(name) ==
    CASE name = n_take_off    -> StructuredTool(TakeOffParams, n_take_off)
      [] name = n_move_to     -> StructuredTool(MoveToParams, n_move_to)
      [] name = n_list_drones -> SimpleTool(n_list_drones)
      [] name = n_get_weather -> SimpleTool(n_get_weather)
      [] OTHER                -> StructuredTool(DroneBaseParams, name)

ToolErrorMarker == "Error executing tool"

\* json.dumps(result): the text of a payload.  A payload can itself hold the
\* words of the marker.
JsonDumps(data) ==
    IF IsDict(data) /\ "message" \in Keys(data) THEN Text(data.d["message"].msg)
    ELSE Text("{...}")

\* UAVToolRegistry._safe_exec: the result of the client method as a JSON
\* string, or the error string that starts with the marker
SafeExec(body) ==
    IF body.kind = "return" THEN JsonDumps(body.data)
    ELSE ErrText(ToolErrorMarker, body.msg)

\* `"Error executing tool" in result_str`
HasErrorMarker(result_str) ==
    result_str.prefix = ToolErrorMarker \/ result_str.msg = ToolErrorMarker

\* The wrapper functions the registry hands to StructuredTool.from_function
\* declare one parameter, params (def take_off(params: TakeOffParams)).
WrapperSignature == [required |-> {"params"}, optional |-> {}]

\* StructuredTool.run(tool_input): the input is validated against args_schema,
\* and func is called with the validated fields that the input names as
\* keyword arguments.
ValidatedKwargs(schema, tool_input) ==
    LET v == Validate(schema, tool_input) IN
    Dict([k \in Keys(tool_input) \cap FieldNames(schema) |-> v.value.d[k]])

\* the outcome of tool.run: the string returned or the exception raised, and
\* whether the client method was invoked
ToolOutcome(raised, result_str, client) ==
    [raised |-> raised, result_str |-> result_str, client |-> client]

StructuredToolRun(tool, tool_input, body) ==
    IF ~Validate(tool.schema, tool_input).ok
    THEN ToolOutcome("ValidationError", PyNone, FALSE)
    ELSE IF Bind(WrapperSignature, ValidatedKwargs(tool.schema, tool_input)) # "ok"
    THEN ToolOutcome("TypeError", PyNone, FALSE)
    ELSE ToolOutcome("", SafeExec(body), TRUE)

\* Tool.run(tool_input): a single-input tool takes exactly one argument
SimpleToolRun(tool, tool_input, body) ==
    IF ~IsDict(tool_input) \/ Cardinality(Keys(tool_input)) # 1
    THEN ToolOutcome("ToolException", PyNone, FALSE)
    ELSE ToolOutcome("", SafeExec(body), TRUE)

ToolRun(tool, tool_input, body) ==
    IF tool.kind = "structured" THEN StructuredToolRun(tool, tool_input, body)
    ELSE SimpleToolRun(tool, tool_input, body)

-----------------------------------------------------------------------------
(* MissionExecutor (src/src2/executor.py) *)

\* schemas.AgentAction
AgentAction(func, params, thought) == [func |-> func, params |-> params, thought |-> thought]

\* the outcome of _execute_single_step: the boolean returned; found: the tool
\* was in tools_map; client: the client method was invoked
StepOutcome(success, found, client) == [success |-> success, found |-> found, client |-> client]

\* MissionExecutor._execute_single_step(action)
ExecuteSingleStep(action, body) ==
    IF action.func \notin ToolNames THEN StepOutcome(FALSE, FALSE, FALSE)
    ELSE LET run == ToolRun(ToolsMap(action.func), action.params, body) IN
         IF run.raised # "" THEN StepOutcome(FALSE, TRUE, run.client)
         ELSE IF HasErrorMarker(run.result_str) THEN StepOutcome(FALSE, TRUE, run.client)
         ELSE StepOutcome(TRUE, TRUE, run.client)

\* a loop that goes on after a failed step
StepAbortsNever(success) == FALSE

\* line 65: the loop gives up after a step that did not succeed
StepAborts(success) == ~success

\* ---- the plans of the model

MaxPlanLen == 3

OneInput == Dict([q |-> Text("")])

PlanSteps ==
    {AgentAction(n_list_drones, OneInput, PyNone),
     AgentAction(n_get_weather, EmptyDict, PyNone),
     AgentAction(n_take_off, Dict([drone_id |-> DroneId, altitude |-> Num(10)]),
                 Text("climb first")),
     AgentAction(n_take_off, Dict([drone_id |-> DroneId, altitude |-> Num(-5)]), PyNone),
     AgentAction(n_return_home, Dict([drone_id |-> SymbolicDrone]), PyNone),
     AgentAction(n_destroy_world, EmptyDict, PyNone)}

RECURSIVE SeqsUpTo(_, _)
SeqsUpTo(S, n) ==
    IF n = 0 THEN {<<>>}
    ELSE LET shorter == SeqsUpTo(S, n - 1) IN
         shorter \cup {Append(q, x) : q \in {r \in shorter : Len(r) = n - 1}, x \in S}

Plans == SeqsUpTo(PlanSteps, MaxPlanLen)

MarkerBody == Returns(Dict([message |-> Text(ToolErrorMarker)]))
StepBodies == {OkBody, MarkerBody, FailBody}

InitPlan ==
    /\ p_plan = <<>>
    /\ p_i = 0
    /\ p_attempts = <<>>
    /\ p_client = <<>>
    /\ p_sleeps = 0
    /\ p_result = "idle"

\* a loop that tests for the end only after a first pass through its body
ForLoopRunsOnce(i, total) == i > total /\ i > 1

\* line 60: the for loop over enumerate(plan.mission_steps, 1) is exhausted
\* when the index of the next step is past the last one
ForLoopEnds(i, total) == i > total

\* lines 46-58: execute_plan is called with a plan; a plan without steps falls
\* through the loop to return True
StartPlan ==
    /\ p_result = "idle"
    /\ \E plan \in Plans :
         /\ p_plan' = plan
         /\ p_result' = IF ForLoopEnds(1, Len(plan)) THEN "true" ELSE "running"
    /\ p_i' = 1
    /\ UNCHANGED <<p_attempts, p_client, p_sleeps, g_last>>
    /\ UNCHANGED <<dispVars, ctlVars, valVars, nlpVars>>

\* lines 60-74: one iteration of the for loop, and the return that follows it
\* when it was the last one or the step failed
ExecuteStep ==
    /\ p_result = "running"
    /\ p_i <= Len(p_plan)
    /\ \E body \in StepBodies :
         LET out == ExecuteSingleStep(p_plan[p_i], body) IN
         /\ p_attempts' = Append(p_attempts, [i |-> p_i, success |-> out.success,
                                            body |-> body.kind])
         /\ p_client' = IF out.client
                        THEN Append(p_client, [i |-> p_i, method |-> ToolsMap(p_plan[p_i].func).method])
                        ELSE p_client
         /\ IF StepAborts(out.success)
            THEN /\ p_result' = "false"
                 /\ UNCHANGED <<p_i, p_sleeps>>
            ELSE /\ p_i' = p_i + 1
                 /\ p_sleeps' = IF p_i < Len(p_plan) THEN p_sleeps + 1 ELSE p_sleeps
                 /\ p_result' = IF ForLoopEnds(p_i + 1, Len(p_plan)) THEN "true" ELSE "running"
    /\ UNCHANGED <<p_plan, g_last>>
    /\ UNCHANGED <<dispVars, ctlVars, valVars, nlpVars>>

-----------------------------------------------------------------------------
(* NLPCommander (src/src2/commander.py) *)

\* lines 19-44: the attributes __init__ assigns to self.  The class body has
\* no attribute of its own and no other method than generate_plan.
CommanderAttributes == {"config", "llm", "system_prompt", "parser"}

\* what a chain of prompt, language model and PydanticOutputParser(MissionPlan)
\* does when it is invoked: it returns a MissionPlan, or it raises (text that
\* is not a MissionPlan, or a transport failure)
ChainReturns(plan) == [kind |-> "plan", plan |-> plan, error |-> ""]
ChainRaises(error) == [kind |-> "raises", plan |-> <<>>, error |-> error]

\* what generate_plan hands back to its caller
PlanningOutcome(plan, raised, caught, invoked) ==
    [plan |-> plan, raised |-> raised, caught |-> caught, invoked |-> invoked]

\* an except clause that prints and raises again
PlanningFailedRaises(error, invoked) == PlanningOutcome(<<>>, error, "", invoked)

\* lines 55-58: the except clause returns MissionPlan(mission_steps=[])
PlanningFailed(error, invoked) == PlanningOutcome(<<>>, "", error, invoked)

\* lines 46-58: generate_plan(user_command).  Line 53 reads self.chain before
\* it can invoke anything; an attribute that __init__ never assigned raises
\* AttributeError inside the try block.
GeneratePlanOf(user_command, answer) ==
    IF "chain" \notin CommanderAttributes THEN PlanningFailed("AttributeError", FALSE)
    ELSE IF answer.kind = "raises" THEN PlanningFailed(answer.error, TRUE)
    ELSE PlanningOutcome(answer.plan, "", "", TRUE)

MaxOraclePlanLen == 2

UserCommands == {"", "take off", "fly home and land"}

\* what the language model would make of a command
ChainAnswers ==
    {ChainReturns(plan) : plan \in SeqsUpTo(PlanSteps, MaxOraclePlanLen)}
    \cup {ChainRaises("OutputParserException"), ChainRaises("ConnectionError")}

NoPlanning == [command |-> "", answer |-> ChainRaises(""), called |-> FALSE,
               out |-> PlanningOutcome(<<>>, "", "", FALSE), executed |-> FALSE]

InitCommander == g_last = NoPlanning

\* a caller asks the commander for a plan
GeneratePlan ==
    /\ p_result = "idle"
    /\ \E user_command \in UserCommands, answer \in ChainAnswers :
         g_last' = [command |-> user_command, answer |-> answer, called |-> TRUE,
                    out |-> GeneratePlanOf(user_command, answer), executed |-> FALSE]
    /\ UNCHANGED <<p_plan, p_i, p_attempts, p_client, p_sleeps, p_result>>
    /\ UNCHANGED <<dispVars, ctlVars, valVars, nlpVars>>

\* the caller hands the plan it was given to execute_plan (executor.py lines
\* 46-58); it has no plan to hand over when generate_plan raised
ExecuteGeneratedPlan ==
    /\ p_result = "idle"
    /\ g_last.called
    /\ g_last.out.raised = ""
    /\ g_last' = [g_last EXCEPT !.executed = TRUE]
    /\ p_plan' = g_last.out.plan
    /\ p_result' = IF ForLoopEnds(1, Len(g_last.out.plan)) THEN "true" ELSE "running"
    /\ p_i' = 1
    /\ UNCHANGED <<p_attempts, p_client, p_sleeps>>
    /\ UNCHANGED <<dispVars, ctlVars, valVars, nlpVars>>

-----------------------------------------------------------------------------
(* MissionPlan on the wire (src/src2/schemas.py lines 159-170) *)

\* MissionPlan and AgentAction are pydantic models: model_dump_json writes a
\* plan as JSON text and model_validate_json reads one.  params is declared
\* Dict[str, Any], so its values are written by their run-time type and read
\* back as what JSON holds.

\* a Python tuple
Tuple(l) == [t |-> "tuple", l |-> l]

\* JSON values; a string holds the Python str it was written from, in
\* whichever of the model's two forms of a str that is
JNull      == [j |-> "null"]
JBool(b)   == [j |-> "bool", b |-> b]
JNumber(n) == [j |-> "number", n |-> n]
JString(s) == [j |-> "string", s |-> s]
JArray(a)  == [j |-> "array", a |-> a]
JObject(o) == [j |-> "object", o |-> o]

\* the JSON written for a value of type Any: a tuple is written as an array,
\* as a list is
RECURSIVE ToJson(_)
ToJson(v) ==
    CASE v.t = "None"  -> JNull
      [] v.t = "bool"  -> JBool(v.b)
      [] v.t = "num"   -> JNumber(v.n)
      [] v.t \in {"str", "text"} -> JString(v)
      [] v.t = "list"  -> JArray([i \in 1..Len(v.l) |-> ToJson(v.l[i])])
      [] v.t = "tuple" -> JArray([i \in 1..Len(v.l) |-> ToJson(v.l[i])])
      [] v.t = "dict"  -> JObject([k \in DOMAIN v.d |-> ToJson(v.d[k])])

\* the value read from JSON for a field of type Any
RECURSIVE FromJson(_)
FromJson(x) ==
    CASE x.j = "null"   -> PyNone
      [] x.j = "bool"   -> Bool(x.b)
      [] x.j = "number" -> Num(x.n)
      [] x.j = "string" -> x.s
      [] x.j = "array"  -> List([i \in 1..Len(x.a) |-> FromJson(x.a[i])])
      [] x.j = "object" -> Dict([k \in DOMAIN x.o |-> FromJson(x.o[k])])

\* AgentAction.model_dump: the three fields of a step (lines 161-163)
DumpAction(action) ==
    JObject([func |-> ToJson(action.func), params |-> ToJson(action.params),
             thought |-> ToJson(action.thought)])

\* MissionPlan.model_dump_json: the steps in their order under mission_steps
\* (line 170)
DumpPlan(plan) ==
    JObject([mission_steps |-> JArray([i \in 1..Len(plan) |-> DumpAction(plan[i])])])

\* AgentAction read from a JSON object: func is required and a string, params
\* is a mapping and empty when missing, thought is a string or null
ValidAction(x) ==
    /\ x.j = "object"
    /\ "func" \in DOMAIN x.o /\ x.o["func"].j = "string"
    /\ "params" \in DOMAIN x.o => x.o["params"].j = "object"
    /\ "thought" \in DOMAIN x.o => x.o["thought"].j \in {"string", "null"}

LoadAction(x) ==
    AgentAction(FromJson(x.o["func"]),
                IF "params" \in DOMAIN x.o THEN FromJson(x.o["params"]) ELSE EmptyDict,
                IF "thought" \in DOMAIN x.o THEN FromJson(x.o["thought"]) ELSE PyNone)

\* MissionPlan.model_validate_json: the plan read, or a ValidationError
LoadPlan(x) ==
    IF /\ x.j = "object"
       /\ "mission_steps" \in DOMAIN x.o
       /\ x.o["mission_steps"].j = "array"
       /\ \A i \in 1..Len(x.o["mission_steps"].a) : ValidAction(x.o["mission_steps"].a[i])
    THEN [raised |-> "",
          plan |-> [i \in 1..Len(x.o["mission_steps"].a) |->
                       LoadAction(x.o["mission_steps"].a[i])]]
    ELSE [raised |-> "ValidationError", plan |-> <<>>]

\* ---- the plans sent

MaxWireLen == 3

Coordinates == <<Num(1), Num(2), Num(10)>>

WireSteps ==
    {AgentAction(n_take_off, Dict([drone_id |-> DroneId, altitude |-> Num(10)]),
                 Text("climb first")),
     AgentAction(n_land, Dict([drone_id |-> DroneId]), PyNone),
     AgentAction(n_list_drones, EmptyDict, PyNone),
     AgentAction(n_get_weather, Dict([verbose |-> Bool(TRUE), note |-> PyNone]), Text("")),
     AgentAction(n_move_to, Dict([drone_id |-> DroneId, target |-> Target1]), PyNone),
     AgentAction(n_move_to, Dict([drone_id |-> DroneId, position |-> List(Coordinates)]),
                 PyNone),
     AgentAction(n_move_to, Dict([drone_id |-> DroneId, position |-> Tuple(Coordinates)]),
                 PyNone)}

WirePlans == SeqsUpTo(WireSteps, MaxWireLen)

NoTrip == [plan |-> <<>>, wire |-> JNull, raised |-> "", back |-> <<>>]

InitWire == w_last = NoTrip

\* MissionPlan.model_validate_json(plan.model_dump_json()) for one plan
RoundTrip ==
    /\ \E plan \in WirePlans : \E wire \in {DumpPlan(plan)} :
          w_last' = [plan |-> plan, wire |-> wire, raised |-> LoadPlan(wire).raised,
                     back |-> LoadPlan(wire).plan]
    /\ UNCHANGED <<v_n, v_last>>
    /\ UNCHANGED <<dispVars, ctlVars, planVars, nlpVars>>

-----------------------------------------------------------------------------
(* DroneContextManager (src/src/context_manager.py) *)

\* str.lower() on the characters the model's names use
LowerChar(c) == CASE c = "D" -> "d" [] c = "X" -> "x" [] OTHER -> c
Lower(x) == Str([i \in 1..Len(x.s) |-> LowerChar(x.s[i])])

\* Python's `a in b` for two strings: a occurs in b as a substring
IsSubstring(a, b) ==
    \E i \in 0..(Len(b.s) - Len(a.s)) : \A j \in 1..Len(a.s) : b.s[i + j] = a.s[j]

\* line 41: the test of one map entry against the query
NameMatches(name, name_query) == IsSubstring(Lower(name), Lower(name_query))

\* get_id_by_name(name_query): the map is a sequence of <<name, id>> in the
\* dict's iteration order
GetIdByName(map, name_query) ==
    IF \E i \in 1..Len(map) : NameMatches(map[i][1], name_query)
    THEN map[CHOOSE i \in 1..Len(map) :
                 /\ NameMatches(map[i][1], name_query)
                 /\ \A j \in 1..(i - 1) : ~NameMatches(map[j][1], name_query)][2]
    ELSE PyNone

\* self.drone_map[d_name] = d_id: a new key goes last, a known key keeps its place
MapSet(map, name, id) ==
    IF \E i \in 1..Len(map) : map[i][1] = name
    THEN [i \in 1..Len(map) |-> IF map[i][1] = name THEN <<name, id>> ELSE map[i]]
    ELSE Append(map, <<name, id>>)

UnknownName == Str(<<"U","n","k","n","o","w","n">>)

\* line 34: one line of the summary
SummaryLine(drone) ==
    [name |-> Get(drone, "name", UnknownName), id |-> Get(drone, "id", PyNone),
     status |-> Get(drone, "status", PyNone)]

\* lines 24-34: the loop over drones_list, from the cleared map; it stops with
\* AttributeError at an entry that is no dict
RECURSIVE RebuildMap(_, _)
RebuildMap(map, drones) ==
    IF drones = <<>> THEN [map |-> map, raised |-> ""]
    ELSE IF ~IsDict(Head(drones)) THEN [map |-> map, raised |-> "AttributeError"]
    ELSE RebuildMap(MapSet(map, Get(Head(drones), "name", UnknownName),
                           Get(Head(drones), "id", PyNone)),
                    Tail(drones))

RECURSIVE SummaryLines(_)
SummaryLines(drones) ==
    IF drones = <<>> THEN <<>> ELSE <<SummaryLine(Head(drones))>> \o SummaryLines(Tail(drones))

\* ---- what list_drones can answer
IdOne == Str(<<"i","1">>)
IdTwo == Str(<<"i","2">>)
DroneOne == Dict([name |-> Str(<<"D","1">>), id |-> IdOne, status |-> Text("idle")])
DroneTwo == Dict([name |-> Str(<<"D","1","X">>), id |-> IdTwo, status |-> Text("flying")])
DroneNoName == Dict([id |-> IdTwo, status |-> Text("idle")])
\* a second agent under the name of the first
DroneOneAgain == Dict([name |-> Str(<<"D","1">>), id |-> IdTwo, status |-> Text("idle")])

DroneLists ==
    {<<>>, <<DroneOne>>, <<DroneTwo>>, <<DroneOne, DroneTwo>>, <<DroneTwo, DroneOne>>,
     <<DroneNoName>>, <<DroneOne, PyNone>>, <<DroneOne, DroneOneAgain>>}

ListBodies == {Returns(List(l)) : l \in DroneLists} \cup {FailBody}

\* a refresh that merges into the map it finds
KeptMap(old) == old

\* line 19: self.drone_map = {}
ClearedMap(old) == <<>>

NoRefresh == [body |-> Returns(List(<<>>)), raised |-> "none"]

\* DroneContextManager.refresh(): list_drones can raise before anything is
\* written (line 16); the loop can raise after the map was cleared and partly
\* rebuilt, before the summary is assigned (line 35)
Refresh ==
    /\ \E body \in ListBodies :
         IF body.kind = "raise"
         THEN /\ r_last' = [body |-> body, raised |-> body.cls]
              /\ UNCHANGED <<drone_map, drone_info_summary>>
         ELSE \E rebuilt \in {RebuildMap(ClearedMap(drone_map), body.data.l)} :
              /\ r_last' = [body |-> body, raised |-> rebuilt.raised]
              /\ drone_map' = rebuilt.map
              /\ drone_info_summary' = IF rebuilt.raised = "" THEN SummaryLines(body.data.l)
                                       ELSE drone_info_summary
    /\ UNCHANGED <<q_last, n_count, n_last, n_printed>>
    /\ UNCHANGED <<dispVars, ctlVars, planVars, valVars>>

\* the queries of the model
s_D1 == Str(<<"D","1">>)
s_d1 == Str(<<"d","1">>)
s_1 == Str(<<"1">>)
s_D1X == Str(<<"D","1","X">>)
NameQueries == {s_D1, s_d1, s_1, s_D1X, SymbolicDrone}

NoLookup == [query |-> PyNone, map |-> <<>>, result |-> PyNone]

\* one call of get_id_by_name by a caller of the context manager
Lookup ==
    /\ \E q \in NameQueries :
         q_last' = [query |-> q, map |-> drone_map, result |-> GetIdByName(drone_map, q)]
    /\ UNCHANGED <<drone_map, drone_info_summary, r_last, n_count, n_last, n_printed>>
    /\ UNCHANGED <<dispVars, ctlVars, planVars, valVars>>

-----------------------------------------------------------------------------
(* NaturalLanguageCommander (src/src/nlp_commander.py) *)

MissionSteps(steps) == Dict([mission_steps |-> steps])

StepTakeOff(drone_id) ==
    Dict([func |-> n_take_off, params |-> Dict([drone_id |-> drone_id, altitude |-> Num(35)])])
StepLand(drone_id) == Dict([func |-> n_land, params |-> Dict([drone_id |-> drone_id])])

\* JsonOutputParser.parse on the answers of the model's planning oracle
ParsePlanJson(raw) ==
    CASE raw = "{\"mission_steps\":[take_off i1, land i1]}" ->
            [ok |-> TRUE, value |-> MissionSteps(List(<<StepTakeOff(IdOne), StepLand(IdOne)>>))]
      [] raw = "{\"mission_steps\":[take_off D9]}" ->
            [ok |-> TRUE, value |-> MissionSteps(List(<<StepTakeOff(SymbolicDrone)>>))]
      [] raw = "{\"mission_steps\":[]}" -> [ok |-> TRUE, value |-> MissionSteps(List(<<>>))]
      [] raw = "[land D9, take_off i1]" ->
            [ok |-> TRUE, value |-> List(<<StepLand(SymbolicDrone), StepTakeOff(IdOne)>>)]
      [] raw = "{land i2}" -> [ok |-> TRUE, value |-> StepLand(IdTwo)]
      [] raw = "{\"mission_steps\":{land i2}}" ->
            [ok |-> TRUE, value |-> MissionSteps(StepLand(IdTwo))]
      [] raw = "42"        -> [ok |-> TRUE, value |-> Num(42)]
      [] OTHER             -> [ok |-> FALSE, value |-> PyNone]

\* one answer of llm.invoke: the text of the response, or a failure of the call
PlanAnswers ==
    {Answer(<<t>>, FALSE) :
        t \in {"{\"mission_steps\":[take_off i1, land i1]}", "{\"mission_steps\":[take_off D9]}",
               "{\"mission_steps\":[]}", "[land D9, take_off i1]", "{land i2}", "42",
               "{\"mission_steps\":{land i2}}",
               "Sorry, I cannot do that"}}
    \cup {Answer(<<>>, TRUE)}

\* a normalisation that leaves a single action object as it is
NormalizeListsOnly(parsed_result) ==
    IF parsed_result.t = "list" THEN MissionSteps(parsed_result)
    ELSE IF IsDict(parsed_result) THEN parsed_result
    ELSE MissionSteps(List(<<>>))

\* lines 127-136: the normalisation of the parsed answer
Normalize(parsed_result) ==
    IF parsed_result.t = "list" THEN MissionSteps(parsed_result)
    ELSE IF IsDict(parsed_result)
    THEN IF "mission_steps" \in Keys(parsed_result) THEN parsed_result
         ELSE MissionSteps(List(<<parsed_result>>))
    ELSE MissionSteps(List(<<>>))

\* NaturalLanguageCommander.parse_instruction, called when the counter holds count
ParseInstruction(count, context, answer, logOk) ==
    LET id     == NextDialogueId(count)
        raw    == Concat(answer.chunks)
        parsed == ParsePlanJson(raw)
        save   == SaveLlmLog(id, NlpParseSuffix, logOk)
        entry0 == [NewLogEntry(id) EXCEPT !.written = save.written, !.file = save.file]
    IN  IF ~answer.fails /\ parsed.ok
        THEN [raised |-> save.raised, result |-> Normalize(parsed.value), count |-> id,
              context |-> context,
              log |-> [entry0 EXCEPT !.raw_response = Text(raw),
                                     !.parsed_output = Normalize(parsed.value),
                                     !.success = TRUE]]
        ELSE [raised |-> save.raised, result |-> MissionSteps(List(<<>>)), count |-> id,
              context |-> context,
              log |-> [entry0 EXCEPT
                         !.raw_response = IF answer.fails THEN PyNone ELSE Text(raw),
                         !.error_message = IF answer.fails THEN Text("invoke failed")
                                           ELSE Text("Invalid json output")]]

\* lines 139-142: one printed step of execute_parsed_mission
PrintedStep(step) ==
    [func |-> Get(step, "func", PyNone),
     drone_id |-> Get(Get(step, "params", EmptyDict), "drone_id", Text("UNKNOWN_ID"))]

\* lines 173-177 with a step list that is no list: len(steps) raises TypeError
\* when it has no length, and step.get raises AttributeError when the items of
\* the iteration are not mappings
PrintRaised == <<[raised |-> "TypeError or AttributeError"]>>

\* NaturalLanguageCommander.execute_parsed_mission(parsed_data): the steps it prints
ExecuteParsedMission(parsed_data) ==
    LET steps == Get(parsed_data, "mission_steps", List(<<>>)) IN
    IF ~Truthy(steps) THEN <<>>
    ELSE IF steps.t # "list" THEN PrintRaised
    ELSE [i \in 1..Len(steps.l) |-> PrintedStep(steps.l[i])]

MaxParses == 2

NoParse == [raised |-> "", result |-> MissionSteps(List(<<>>)), count |-> 0, context |-> <<>>,
            log |-> NoLog, map |-> <<>>, answer |-> NoAnswer]

InitNlp ==
    /\ drone_map = <<>>
    /\ drone_info_summary = <<>>
    /\ r_last = NoRefresh
    /\ q_last = NoLookup
    /\ n_count = 0
    /\ n_last = NoParse
    /\ n_printed = <<>>

\* one call of parse_instruction
ParseCommand ==
    /\ n_count < MaxParses
    /\ \E answer \in PlanAnswers, logOk \in BOOLEAN :
         LET out == ParseInstruction(n_count, drone_info_summary, answer, logOk) IN
         /\ n_last' = [raised |-> out.raised, result |-> out.result, count |-> out.count,
                        context |-> out.context, log |-> out.log, map |-> drone_map,
                        answer |-> answer]
         /\ n_count' = out.count
    /\ n_printed' = <<>>
    /\ UNCHANGED <<drone_map, drone_info_summary, r_last, q_last>>
    /\ UNCHANGED <<dispVars, ctlVars, planVars, valVars>>

\* execute_parsed_mission on the plan parse_instruction returned, as the
\* commander's main block calls it
RunParsedMission ==
    /\ n_count > 0
    /\ n_printed = <<>>
    /\ n_printed' = ExecuteParsedMission(n_last.result)
    /\ UNCHANGED <<drone_map, drone_info_summary, r_last, q_last, n_count, n_last>>
    /\ UNCHANGED <<dispVars, ctlVars, planVars, valVars>>

-----------------------------------------------------------------------------
(* Specifications *)

Init ==
    /\ InitDispatch /\ InitController /\ InitPlan /\ InitCommander
    /\ InitValidate /\ InitWire /\ InitNlp

\* the decision loop of MissionController.run
Next == StartRun \/ Tick
Spec == Init /\ [][Next]_vars

\* the decision loop when run() is given the processor whenever it has a step
\* to take: the only thing that can keep an iteration from ending is then the
\* iteration itself
SpecLive == Init /\ [][Next]_vars /\ WF_vars(Next)

\* the dispatcher called by any caller
NextDispatch == ExecuteCall
SpecDispatch == Init /\ [][NextDispatch]_vars

\* MissionExecutor.execute_plan
NextPlan == StartPlan \/ ExecuteStep
SpecPlan == Init /\ [][NextPlan]_vars

\* a caller that asks NLPCommander for a plan and hands what it is given to
\* execute_plan
NextCommand == GeneratePlan \/ ExecuteGeneratedPlan
SpecCommand == Init /\ [][NextCommand]_vars

\* pydantic validation of take-off parameters
NextValidate == ValidateTakeOff
SpecValidate == Init /\ [][NextValidate]_vars

\* plans written to the wire format and read back
NextWire == RoundTrip
SpecWire == Init /\ [][NextWire]_vars

\* the identity map: refreshes and lookups
NextContext == Refresh \/ Lookup
SpecContext == Init /\ [][NextContext]_vars

\* the natural-language entry point with its identity map
NextNlp == Refresh \/ ParseCommand \/ RunParsedMission
SpecNlp == Init /\ [][NextNlp]_vars

-----------------------------------------------------------------------------
(* Properties of the decision loop (Spec) *)

\* the last iteration read a non-empty snapshot and went through the rules
TickDecided == IsDict(c_tick.status) /\ Truthy(c_tick.status)

TickBattery == Get(c_tick.status, "battery", Num(100)).n

\* C1: a tick whose snapshot has a battery below 20 dispatches return_home and
\* nothing else, without an oracle call, whatever the obstacle flag, the target
\* list and the completion flag are.
C1_LowBatteryReturnsHome ==
    (TickDecided /\ TickBattery < 20) =>
        /\ Len(c_tick.calls) = 1
        /\ c_tick.calls[1].func = n_return_home
        /\ c_tick.calls[1].params = Dict([drone_id |-> DroneId])
        /\ ~c_tick.oracle
        /\ c_tick.exit = "returned"

\* a low battery together with an obstacle, two targets and the flag set
C1_Witness ==
    /\ TickDecided
    /\ TickBattery = 19
    /\ c_tick.flag_before
    /\ Get(c_tick.status, "obstacle_detected", Bool(FALSE)) = Bool(TRUE)
    /\ Get(c_tick.status, "visual_targets", List(<<>>)) = List(<<Target2, Target1>>)
    /\ c_tick.calls[1].func = n_return_home

\* C2: a tick whose snapshot reports an obstacle, with a battery of at least 20
\* and the completion flag unset, dispatches avoid_obstacle with direction
\* right and nothing else: no move_to, no oracle call, and the flag stays unset.
C2_ObstacleBeforeTargets ==
    (/\ TickDecided
     /\ TickBattery >= 20
     /\ ~c_tick.flag_before
     /\ Get(c_tick.status, "obstacle_detected", Bool(FALSE)) = Bool(TRUE)) =>
        /\ Len(c_tick.calls) = 1
        /\ c_tick.calls[1].func = n_avoid_obstacle
        /\ c_tick.calls[1].params = Dict([drone_id |-> DroneId, direction |-> Text("right")])
        /\ ~c_tick.oracle
        /\ ~mission_completed
        /\ c_tick.exit = "continue"

\* an obstacle together with a target in view
C2_Witness ==
    /\ TickDecided
    /\ TickBattery = 20
    /\ ~c_tick.flag_before
    /\ Get(c_tick.status, "obstacle_detected", Bool(FALSE)) = Bool(TRUE)
    /\ Get(c_tick.status, "visual_targets", List(<<>>)) = List(<<Target1>>)
    /\ c_tick.calls[1].func = n_avoid_obstacle

\* the oracle was asked in the last iteration and the stream or the parsing of
\* its text failed
OracleFailed ==
    /\ TickDecided
    /\ c_tick.oracle
    /\ c_tick.exit # "waiting"
    /\ \/ c_log.raw_response = PyNone
       \/ ~ParseJson(c_log.raw_response.msg).ok

\* the snapshot carries a position with its three coordinates
TickPositionFull ==
    /\ "position" \in Keys(c_tick.status)
    /\ {"x", "y", "z"} \subseteq Keys(c_tick.status.d["position"])

C12_TickFaultsNeverEndTheLoop ==
    ticks > 0 =>
        /\ pc \in {"loop", "returned", "stopped"}
        /\ pc = "stopped" => ~Truthy(c_tick.status)
        /\ pc = "returned" => (TickBattery < 20 \/ c_tick.flag_before)

\* C13: an iteration that reads a non-empty snapshot dispatches exactly one
\* action.
C13_ExactlyOneActionPerTick ==
    TickDecided => Len(c_tick.calls) = 1

ReturnHomeDispatched ==
    \E j \in 1..Len(c_tick.calls) : c_tick.calls[j].func = n_return_home

\* C14: return_home is terminal: the tick that dispatches it dispatches nothing
\* else and ends run(), and from then on the controller reads no snapshot, asks
\* no oracle and dispatches nothing.
C14_ReturnHomeIsTerminal ==
    /\ [](ReturnHomeDispatched => (Len(c_tick.calls) = 1 /\ pc = "returned"))
    /\ [][ReturnHomeDispatched => UNCHANGED ctlVars]_vars

\* run() has returned home in its first iteration, with iterations to spare
C14_Witness ==
    /\ ReturnHomeDispatched
    /\ pc = "returned"
    /\ ticks = 1
    /\ ticks < MaxTicks

\* the first target of the snapshot of the last iteration
FirstTarget == Get(c_tick.status, "visual_targets", List(<<>>)).l[1]

\* the target rule is the one that applies, to a target with a position and an id
TargetTick ==
    /\ TickDecided
    /\ TickBattery >= 20
    /\ ~c_tick.flag_before
    /\ ~Truthy(Get(c_tick.status, "obstacle_detected", Bool(FALSE)))
    /\ Truthy(Get(c_tick.status, "visual_targets", List(<<>>)))
    /\ {"pos", "id"} \subseteq Keys(FirstTarget)

C16_FlagStaysAndReturnsHome ==
    /\ [][mission_completed => mission_completed']_vars
    /\ []((TickDecided /\ c_tick.flag_before) =>
            /\ Len(c_tick.calls) = 1
            /\ c_tick.calls[1].func = n_return_home
            /\ pc = "returned"
            /\ mission_completed)

\* the flag is set, the battery is good, an obstacle and a target are reported
C16_Witness ==
    /\ TickDecided
    /\ c_tick.flag_before
    /\ TickBattery >= 20
    /\ Get(c_tick.status, "obstacle_detected", Bool(FALSE)) = Bool(TRUE)
    /\ Truthy(Get(c_tick.status, "visual_targets", List(<<>>)))
    /\ c_tick.calls[1].func = n_return_home

\* the answer to the readiness query says that the agent is in the error
\* state, under either key
ReportsError(body) ==
    /\ body.kind = "return"
    /\ IsDict(body.data)
    /\ \/ Get(body.data, "state", PyNone) = Text("error")
       \/ Get(body.data, "status", PyNone) = Text("error")

\* C17: when the readiness query fails or reports the error state, run() ends
\* without take_off and without any later action.
C17_NoTakeOffUnlessReady ==
    (c_ready.kind = "raise" \/ ReportsError(c_ready)) =>
        /\ pc = "aborted"
        /\ c_tick.calls = <<>>
        /\ ticks = 0

-----------------------------------------------------------------------------
(* Properties of MissionExecutor.execute_plan (SpecPlan) *)

AllSucceeded(attempts) == \A j \in 1..Len(attempts) : attempts[j].success

\* C3: the steps are attempted in list order, each at most once; nothing is
\* attempted after the first step that fails and the result is then false; the
\* result is true exactly when every step was attempted and succeeded.
C3_InOrderAbortOnFirstFailure ==
    /\ Len(p_attempts) <= Len(p_plan)
    /\ \A j \in 1..Len(p_attempts) : p_attempts[j].i = j
    /\ \A j \in 1..(Len(p_attempts) - 1) : p_attempts[j].success
    /\ (Len(p_attempts) > 0 /\ ~p_attempts[Len(p_attempts)].success) => p_result = "false"
    /\ p_result = "false" => (Len(p_attempts) > 0 /\ ~p_attempts[Len(p_attempts)].success)
    /\ p_result = "true" <=>
          (p_result # "idle" /\ Len(p_attempts) = Len(p_plan) /\ AllSucceeded(p_attempts))

\* a plan of three steps given up at its second step
C3_Witness ==
    /\ Len(p_plan) = 3
    /\ p_result = "false"
    /\ Len(p_attempts) = 2
    /\ p_attempts[1].success
    /\ ~p_attempts[2].success

\* a step is invalid when its func is no tool of the catalog or its params
\* violate the schema of the tool
InvalidStep(action) ==
    \/ action.func \notin ToolNames
    \/ /\ ToolsMap(action.func).kind = "structured"
       /\ ~Validate(ToolsMap(action.func).schema, action.params).ok

\* C8: no step of a plan that contains an invalid step is dispatched to the
\* client.
C8_InvalidPlanNeverDispatched ==
    (\E j \in 1..Len(p_plan) : InvalidStep(p_plan[j])) => p_client = <<>>

-----------------------------------------------------------------------------
(* Properties of UAVExecutor.execute (SpecDispatch) *)

\* the client has no attribute of that name
NotProvided(name) == name \notin ClientCallables \cup ClientProperties \cup {n_dunder_init}

NotFoundOutcome ==
    /\ d_last.out.raised = ""
    /\ ~d_last.out.result.success
    /\ d_last.out.result.error = NotSupportedText(d_last.func_name)
    /\ ~d_last.out.called

\* C4: dispatching a name that does not begin with '_' and that the client
\* does not provide returns success false with the not-supported error, calls
\* no client method and raises nothing.
C4_AbsentPublicNameNotFound ==
    (/\ d_n > 0
     /\ IsStr(d_last.func_name)
     /\ NotProvided(d_last.func_name)
     /\ ~StartsWith(d_last.func_name, "_")) => NotFoundOutcome

\* destroy_world, as the self-test of uav_executor.py dispatches it
C4_Witness ==
    /\ d_n > 0
    /\ d_last.func_name = n_destroy_world
    /\ d_last.params = EmptyDict
    /\ NotFoundOutcome

\* C4 as stated: every name the client does not provide gets the not-found
\* error.
C4_AnyAbsentNameNotFound ==
    (d_n > 0 /\ IsStr(d_last.func_name) /\ NotProvided(d_last.func_name)) => NotFoundOutcome

\* C5: a name beginning with '_' gets the access-denied error and no client
\* method is called, whether or not the client has an attribute of that name.
C5_PrivateNameDenied ==
    (d_n > 0 /\ IsStr(d_last.func_name) /\ StartsWith(d_last.func_name, "_")) =>
        /\ d_last.out.raised = ""
        /\ ~d_last.out.result.success
        /\ d_last.out.result.error = AccessDeniedText
        /\ ~d_last.out.called

\* a private name the client does not have
C5_Witness ==
    /\ d_n > 0
    /\ d_last.func_name = n_ghost
    /\ NotProvided(d_last.func_name)
    /\ d_last.out.result.error = AccessDeniedText

\* C6: when the call of the client method raises, the result has success
\* false; the error is an argument mismatch exactly when the arguments did not
\* fit the method, and otherwise it is the message of the fault unchanged.
C6_MismatchOnlyForArgumentShape ==
    (d_n > 0 /\ d_last.out.called /\ ~d_last.out.result.success) =>
        /\ d_last.out.result.error.prefix = ArgumentMismatchPrefix <=> ~d_last.out.entered
        /\ d_last.out.entered => d_last.out.result.error = Text(d_last.body.msg)

\* C7: every call of execute returns a result record; no exception leaves it.
C7_ExecuteAlwaysReturns ==
    d_n > 0 => d_last.out.raised = ""

-----------------------------------------------------------------------------
(* Properties of the pydantic contract of take_off (SpecValidate) *)

AltitudeGiven == "altitude" \in Keys(v_last.input)

\* C10: with a drone_id that validates, TakeOffParams accepts the input exactly
\* when altitude is omitted or is a number strictly greater than 0; an accepted
\* altitude keeps its value and an omitted one becomes 10.
C10_AltitudeStrictlyPositive ==
    (/\ v_n > 0
     /\ "drone_id" \in Keys(v_last.input)
     /\ v_last.input.d["drone_id"].t = "str") =>
        /\ v_last.out.ok <=>
              \/ ~AltitudeGiven
              \/ /\ v_last.input.d["altitude"].t = "num"
                 /\ v_last.input.d["altitude"].n > 0
        /\ v_last.out.ok =>
              v_last.out.value.d["altitude"] =
                  IF AltitudeGiven THEN v_last.input.d["altitude"] ELSE Num(10)

\* altitude 0 has been rejected for the bound of the field
C10_Witness ==
    /\ v_n > 0
    /\ v_last.input = Dict([drone_id |-> DroneId, altitude |-> Num(0)])
    /\ ~v_last.out.ok
    /\ v_last.out.errors = {<<"altitude", "greater_than">>}

-----------------------------------------------------------------------------
(* Properties of the natural-language entry point (SpecNlp) *)

\* d is no identifier of the map and get_id_by_name finds no name for it
Unresolved(map, d) ==
    /\ IsStr(d)
    /\ \A i \in 1..Len(map) : map[i][2] # d
    /\ GetIdByName(map, d) = PyNone

\* the steps of a parsed plan that carry a drone_id
StepsOf(result) == Get(result, "mission_steps", List(<<>>)).l

NamesUnresolved(result, map) ==
    \E i \in 1..Len(StepsOf(result)) :
        Unresolved(map, Get(Get(StepsOf(result)[i], "params", EmptyDict), "drone_id", PyNone))

\* C9: a plan with a step that names an agent matching no entry of the
\* identity map fails validation and is not executed.
C9_UnresolvedNameRejected ==
    (n_count > 0 /\ NamesUnresolved(n_last.result, n_last.map)) =>
        /\ ~n_last.log.success
        /\ n_printed = <<>>

-----------------------------------------------------------------------------
(* Properties of the identity map (SpecContext) *)

\* the name contains the query, letter case ignored
NameContains(name, q) == IsSubstring(Lower(q), Lower(name))

\* C18: get_id_by_name(q) returns the id of the first agent, in the order of
\* the map, whose name contains q without regard to case, and returns None
\* only when no name of the map contains q.
C18_SubstringLookup ==
    q_last.query # PyNone =>
        LET m    == q_last.map
            hits == {i \in 1..Len(m) : NameContains(m[i][1], q_last.query)}
        IN  /\ hits # {} =>
                  \E i \in hits : (\A j \in hits : i <= j) /\ q_last.result = m[i][2]
            /\ q_last.result = PyNone => hits = {}

\* the answers of list_drones that refresh() can go through to its end
FullResponses == {l \in DroneLists : \A i \in 1..Len(l) : IsDict(l[i])}

\* C19: the map and the summary always reflect one and the same answer of
\* list_drones in full.
C19_RefreshIsAtomic ==
    \E l \in FullResponses :
        /\ drone_map = RebuildMap(<<>>, l).map
        /\ drone_info_summary = SummaryLines(l)

\* the last refresh went through to its end, and the list it was given
RefreshSucceeded == r_last.raised = ""
LastList == r_last.body.data.l

NameOf(drone) == Get(drone, "name", UnknownName)
IdOf(drone)   == Get(drone, "id", PyNone)

\* no later agent of the list has the name of agent i
LastOfName(l, i) == \A j \in (i + 1)..Len(l) : NameOf(l[j]) # NameOf(l[i])

MapHas(name, id) == \E k \in 1..Len(drone_map) : drone_map[k] = <<name, id>>

\* what holds of the map after a successful refresh whether or not a name is
\* listed twice: no entry for a name that is not listed, one entry per name,
\* one summary line per listed agent, under a name the map holds
RebuiltFromLastList ==
    /\ \A k \in 1..Len(drone_map) :
          \E i \in 1..Len(LastList) : NameOf(LastList[i]) = drone_map[k][1]
    /\ \A k1, k2 \in 1..Len(drone_map) : drone_map[k1][1] = drone_map[k2][1] => k1 = k2
    /\ Len(drone_info_summary) = Len(LastList)
    /\ \A i \in 1..Len(LastList) :
          /\ drone_info_summary[i].name = NameOf(LastList[i])
          /\ \E k \in 1..Len(drone_map) : drone_map[k][1] = drone_info_summary[i].name

\* C20: after a successful refresh the map is determined by the latest answer
\* of list_drones alone: it holds the pair of every listed agent whose name no
\* later agent of the list bears, nothing of an earlier answer survives, and
\* the summary has one line per listed agent, with the id the map gives when
\* no later agent bears the name.
C20_MapFromLatestResponse ==
    RefreshSucceeded =>
        /\ RebuiltFromLastList
        /\ \A i \in 1..Len(LastList) :
              LastOfName(LastList, i) =>
                  /\ MapHas(NameOf(LastList[i]), IdOf(LastList[i]))
                  /\ MapHas(drone_info_summary[i].name, drone_info_summary[i].id)

\* the map held D1 at the last lookup; a refresh that lists only D1X has
\* replaced it
C20_Witness ==
    /\ RefreshSucceeded
    /\ LastList = <<DroneTwo>>
    /\ q_last.map = <<<<s_D1, IdOne>>>>
    /\ drone_map = <<<<s_D1X, IdTwo>>>>

\* C20 as stated: the pair of every listed agent is in the map, and every
\* summary line carries the id the map gives.
C20_EveryListedPairInMap ==
    RefreshSucceeded =>
        /\ RebuiltFromLastList
        /\ \A i \in 1..Len(LastList) :
              /\ MapHas(NameOf(LastList[i]), IdOf(LastList[i]))
              /\ MapHas(drone_info_summary[i].name, drone_info_summary[i].id)

-----------------------------------------------------------------------------
(* Properties of the interaction log (Spec) *)

\* the last iteration asked the oracle and the call has ended
OracleCallEnded == TickDecided /\ c_tick.oracle /\ c_tick.exit # "waiting"

\* ids on both sides of the widths at which the zero padding stops
SampleIds == {1, 2, 9, 10, 11, 99, 100, 101, 999, 1000, 1001}

\* the calls of _ask_llm_for_strategy that have ended, counted by the counter
EndedCalls == llm_conversation_count - (IF pc = "waiting" THEN 1 ELSE 0)

\* what every state of a session shows of its log
LogOfSession ==
    /\ Len(c_files) = EndedCalls
    /\ \A i \in 1..Len(c_files) : c_files[i] = LogFileName(i, DialogueSuffix)
    /\ \A i, j \in 1..Len(c_files) : i # j => c_files[i] # c_files[j]
    /\ OracleCallEnded =>
          /\ c_log.dialogue_id = llm_conversation_count
          /\ c_log.file = c_files[Len(c_files)]
    /\ \A i, j \in SampleIds, sfx \in {DialogueSuffix, NlpParseSuffix} :
          i # j => LogFileName(i, sfx) # LogFileName(j, sfx)

\* what one iteration does to the log
LogOfTick ==
    /\ llm_conversation_count' = llm_conversation_count + (IF c_tick'.oracle THEN 1 ELSE 0)
    /\ Len(c_files') =
          Len(c_files) + (IF c_tick'.oracle /\ c_tick'.exit # "waiting" THEN 1 ELSE 0)
    /\ (c_tick'.oracle /\ c_tick'.exit # "waiting") =>
          c_log'.dialogue_id = llm_conversation_count + 1
    /\ \A i \in 1..Len(c_files) : c_files'[i] = c_files[i]

\* parse_instruction called at every value of its counter, with every answer
LogOfParseInstruction ==
    \A count \in 0..MaxParses, answer \in PlanAnswers, logOk \in BOOLEAN :
        LET out == ParseInstruction(count, <<>>, answer, logOk) IN
        /\ out.count = count + 1
        /\ out.log.dialogue_id = count + 1
        /\ out.log.file = LogFileName(count + 1, NlpParseSuffix)
        /\ out.log.written = logOk

\* C21 (as amended): every call of _ask_llm_for_strategy or parse_instruction
\* that ends, with success or with failure, hands exactly one record to
\* _save_llm_log; the ids of a session start at 1 and each is one greater than
\* the one before; the file opened for a record carries the record's id, so no
\* two interactions of a session open the same file name; the record is in the
\* file when the write succeeds, and no record is left when it fails.
C21_OneSavePerInteraction ==
    /\ [](LogOfSession /\ LogOfParseInstruction)
    /\ [][(ticks' = ticks + 1) => LogOfTick]_vars

\* the second interaction of a session, its write failing
C21_Witness ==
    /\ OracleCallEnded
    /\ llm_conversation_count = 2
    /\ c_files = <<LogFileName(1, DialogueSuffix), LogFileName(2, DialogueSuffix)>>
    /\ c_files[2].number = <<"0", "0", "2">>
    /\ ~c_log.written

\* C21 as stated: every oracle interaction writes one record, with the id that
\* follows the one before.
C21_EveryInteractionWritesARecord ==
    OracleCallEnded =>
        /\ c_log.written
        /\ c_log.dialogue_id = llm_conversation_count
        /\ Len(c_files) = llm_conversation_count

\* _ask_llm_for_strategy called as the last iteration called it, with a log
\* sink that works
AskWithWorkingLog ==
    AskLlmForStrategy(c_tick.status, llm_conversation_count - 1, c_tick.answer, TRUE)

\* what the exploration rule does with a value returned by the oracle call
MoveToReturned(result) ==
    IF ~Truthy(result) THEN c_tick.calls = <<>>
    ELSE /\ Len(c_tick.calls) = 1
         /\ c_tick.calls[1].func = n_move_to
         /\ c_tick.calls[1].params =
               Dict([drone_id |-> DroneId, x |-> Get(result, "x", PyNone),
                     y |-> Get(result, "y", PyNone), z |-> Get(result, "z", PyNone)])

\* C22: a write of the interaction log that fails changes nothing else: the
\* iteration whose oracle call could not write its record raises exactly when
\* the same call with a working log sink does, it dispatches the move_to that
\* the value returned with a working sink gives, the record differs only in
\* not being written, and the loop goes on; parse_instruction returns the same
\* plan, raising nothing, whether its write fails or not.
C22_LogFailureChangesNoOutcome ==
    /\ (OracleCallEnded /\ ~c_log.written) =>
          /\ c_log = [AskWithWorkingLog.log EXCEPT !.written = FALSE]
          /\ (c_tick.exit = "raised") <=>
                \/ AskWithWorkingLog.raised # ""
                \/ Truthy(AskWithWorkingLog.result) /\ ~IsDict(AskWithWorkingLog.result)
          /\ (c_tick.exit # "raised") =>
                /\ c_tick.exit = "continue"
                /\ pc = "loop"
                /\ MoveToReturned(AskWithWorkingLog.result)
    /\ \A count \in 0..MaxParses, answer \in PlanAnswers :
          /\ ParseInstruction(count, <<>>, answer, FALSE).result
                = ParseInstruction(count, <<>>, answer, TRUE).result
          /\ ParseInstruction(count, <<>>, answer, FALSE).raised = ""
          /\ ~ParseInstruction(count, <<>>, answer, FALSE).log.written

\* the oracle answered with coordinates, the record could not be written, and
\* the move was dispatched
C22_Witness ==
    /\ OracleCallEnded
    /\ ~c_log.written
    /\ c_log.success
    /\ pc = "loop"
    /\ Len(c_tick.calls) = 1
    /\ c_tick.calls[1].params.d["x"] = Num(10)

-----------------------------------------------------------------------------
(* Properties of plans without steps (SpecPlan) *)

\* execute_plan has been called
PlanStarted == p_i >= 1

\* C23: execute_plan on a plan without steps hands no step to
\* _execute_single_step, invokes no client method, does not sleep and returns
\* True; execute_parsed_mission on an empty step list, or on a plan without a
\* step list, performs no step.
C23_EmptyPlanIsNoOp ==
    /\ (PlanStarted /\ p_plan = <<>>) =>
          /\ p_result = "true"
          /\ p_attempts = <<>>
          /\ p_client = <<>>
          /\ p_sleeps = 0
    /\ ExecuteParsedMission(MissionSteps(List(<<>>))) = <<>>
    /\ ExecuteParsedMission(EmptyDict) = <<>>

\* execute_plan has returned from a plan without steps
C23_Witness ==
    /\ PlanStarted
    /\ p_plan = <<>>
    /\ p_result = "true"

-----------------------------------------------------------------------------
(* Properties of parse_instruction (SpecNlp) *)

\* what JsonOutputParser made of the text of the last answer
LastParsed == ParsePlanJson(Concat(n_last.answer.chunks))

\* the last call of parse_instruction did not get a parsed answer
LastParseFailed == n_last.answer.fails \/ ~LastParsed.ok

\* the value under mission_steps in the plan the last call returned
LastSteps == Get(n_last.result, "mission_steps", Absent)

\* C24: parse_instruction returns, without raising, a plan whose mission_steps
\* is a list: the list the oracle answered, the one-element list of the single
\* action object it answered, the answer itself when it has a mission_steps
\* key, and the empty list after a transport or parse failure.
C24_EveryAnswerBecomesAStepList ==
    (n_count > 0) =>
        /\ n_last.raised = ""
        /\ IsDict(n_last.result)
        /\ LastSteps.t = "list"
        /\ LastParseFailed => LastSteps = List(<<>>)
        /\ (~LastParseFailed /\ LastParsed.value.t = "list") => LastSteps = LastParsed.value
        /\ (~LastParseFailed /\ IsDict(LastParsed.value)) =>
              IF "mission_steps" \in Keys(LastParsed.value)
              THEN n_last.result = LastParsed.value
              ELSE LastSteps = List(<<LastParsed.value>>)

-----------------------------------------------------------------------------
(* Properties of the capability catalog (SpecDispatch) *)

\* The catalog is the set of tools that get_all_tools registers
\* (tools_registry.py lines 95-239).  Of the names the model dispatches, the
\* ones in ToolNames are in it and no other is.
InCatalog(name) == name \in ToolNames

\* C25: dispatching a name that is not in the capability catalog fails and
\* invokes no method of the client, whatever attributes the client has.
C25_OnlyCataloguedNamesReachTheClient ==
    (d_n > 0 /\ IsStr(d_last.func_name) /\ ~InCatalog(d_last.func_name)) =>
        /\ d_last.out.raised = ""
        /\ ~d_last.out.result.success
        /\ ~d_last.out.called

-----------------------------------------------------------------------------
(* Properties of the wire format (SpecWire) *)

\* a value that JSON holds as it is: no tuple in it
RECURSIVE JsonValued(_)
JsonValued(v) ==
    CASE v.t = "tuple" -> FALSE
      [] v.t = "list"  -> \A i \in 1..Len(v.l) : JsonValued(v.l[i])
      [] v.t = "dict"  -> \A k \in DOMAIN v.d : JsonValued(v.d[k])
      [] OTHER         -> TRUE

\* the plans whose parameters JSON holds as they are come back equal
JsonValuedPlansComeBack ==
    (\A i \in 1..Len(w_last.plan) : JsonValued(w_last.plan[i].params)) =>
        (w_last.raised = "" /\ w_last.back = w_last.plan)

\* C26: a MissionPlan written to the wire format and read back is read
\* without an error and has the steps of the original, equal one by one and in
\* the same order.
C26_RoundTripKeepsTheSteps ==
    (w_last # NoTrip) =>
        /\ w_last.raised = ""
        /\ Len(w_last.back) = Len(w_last.plan)
        /\ \A i \in 1..Len(w_last.plan) : w_last.back[i] = w_last.plan[i]

-----------------------------------------------------------------------------
(* Properties of a whole mission (Spec) *)

\* the step that is the first iteration of the loop, reading a snapshot with
\* battery 15
FirstTickAtBattery15 ==
    /\ pc = "loop"
    /\ ticks = 0
    /\ ticks' = 1
    /\ IsDict(c_tick'.status)
    /\ Get(c_tick'.status, "battery", Num(DefaultBattery)) = Num(15)

\* C27: in a mission whose first snapshot has battery 15, return_home is the
\* one action executed against the actuation surface: nothing was dispatched
\* before the iteration that reads the snapshot, and that iteration dispatches
\* return_home and nothing else.
C27_ReturnHomeIsTheOnlyStep ==
    [][FirstTickAtBattery15 =>
          /\ c_tick.calls = <<>>
          /\ Len(c_tick'.calls) = 1
          /\ c_tick'.calls[1].func = n_return_home]_vars

\* C28: every oracle call of the loop gives control back: an iteration that
\* waits for the language model ends, by an answer, a failure or a timeout.
C28_EveryOracleCallReturns == (pc = "waiting") ~> (pc # "waiting")

\* C29: an action that fails inside an iteration is the last one the iteration
\* dispatches, and the completion flag is after the iteration what it was
\* before it.
C29_FailedActionHaltsTheTick ==
    (ticks > 0) =>
        \A i \in 1..Len(c_tick.calls) :
            ~c_tick.calls[i].success =>
                /\ i = Len(c_tick.calls)
                /\ mission_completed = c_tick.flag_before

-----------------------------------------------------------------------------
(* Properties of the streamed answer (Spec) *)

\* the first n chunks of a stream, one after the other
RECURSIVE InArrivalOrder(_, _)
InArrivalOrder(chunks, n) ==
    IF n = 0 THEN "" ELSE InArrivalOrder(chunks, n - 1) \o chunks[n]

\* all that the oracle streamed in the last iteration
StreamedText == InArrivalOrder(c_tick.answer.chunks, Len(c_tick.answer.chunks))

\* C30: the text stored as raw_response and given to the parser is all the
\* chunks of the stream in their order of arrival, and the parsed output of
\* the record is the parse of that whole text; when the stream fails, after
\* whatever chunks, nothing is stored as raw_response, nothing is parsed, and
\* the fallback applies: the record has success false and the iteration moves
\* to the position of the snapshot.
C30_ParsedOnceAfterTheStream ==
    OracleCallEnded =>
        IF c_tick.answer.fails
        THEN /\ c_log.raw_response = PyNone
             /\ c_log.parsed_output = PyNone
             /\ ~c_log.success
             /\ TickPositionFull =>
                   /\ Len(c_tick.calls) = 1
                   /\ c_tick.calls[1].func = n_move_to
                   /\ \A k \in {"x", "y", "z"} :
                         c_tick.calls[1].params.d[k] = c_tick.status.d["position"].d[k]
        ELSE /\ c_log.raw_response = Text(StreamedText)
             /\ c_log.success = ParseJson(StreamedText).ok
             /\ c_log.success => c_log.parsed_output = ParseJson(StreamedText).value
             /\ ~c_log.success => c_log.parsed_output = PyNone

\* an answer that arrives in two chunks, neither of which is JSON on its own
C30_Witness ==
    /\ OracleCallEnded
    /\ c_tick.answer = Answer(<<"{\"x\":10,", "\"y\":20,\"z\":5}">>, FALSE)
    /\ c_log.success
    /\ c_log.raw_response = Text("{\"x\":10,\"y\":20,\"z\":5}")
    /\ c_tick.calls[1].params.d["z"] = Num(5)

\* a stream that fails after a chunk that is JSON on its own
StreamFailsAfterJson ==
    /\ OracleCallEnded
    /\ c_tick.answer = Answer(<<"{\"x\":10}">>, TRUE)
    /\ TickPositionFull
    /\ c_tick.calls[1].params.d["x"] = Num(1)

-----------------------------------------------------------------------------
(* Properties of the stop on an empty snapshot (Spec) *)

\* the last iteration read nothing: the query failed, or it returned None or
\* a snapshot without fields
EmptySnapshotTick ==
    /\ ticks > 0
    /\ c_tick.status \in {PyNone, EmptyDict}

\* C31: an iteration whose status query fails or returns an empty snapshot
\* ends the run at once: nothing is dispatched in it (no return_home either,
\* even with the completion flag set), the language model is not asked, the
\* flag keeps its value, and no further iteration can start.
C31_EmptySnapshotStopsTheLoop ==
    EmptySnapshotTick =>
        /\ pc = "stopped"
        /\ c_tick.exit = "stopped"
        /\ c_tick.calls = <<>>
        /\ ~c_tick.oracle
        /\ mission_completed = c_tick.flag_before
        /\ ~ENABLED Tick

\* the second iteration reads nothing after the first one set the flag
C31_Witness ==
    /\ EmptySnapshotTick
    /\ ticks = 2
    /\ c_tick.flag_before
    /\ pc = "stopped"

-----------------------------------------------------------------------------
(* Properties of NLPCommander.generate_plan (SpecCommand) *)

\* the language model would have answered the last command with a valid plan
OracleHadAPlan == g_last.called /\ g_last.answer.kind = "plan"

\* C32: generate_plan returns the plan the language model made of the command,
\* its steps unchanged and in order, and the empty plan only when the
\* invocation failed; it never raises.
C32_GeneratePlanReturnsTheOraclePlan ==
    g_last.called =>
        /\ g_last.out.raised = ""
        /\ OracleHadAPlan => g_last.out.plan = g_last.answer.plan
        /\ OracleHadAPlan => g_last.out.caught = ""

\* generate_plan never raises, whatever the invocation does
GeneratePlanNeverRaises == g_last.called => g_last.out.raised = ""

\* the language model is never asked
ChainNeverInvoked == g_last.called => ~g_last.out.invoked /\ g_last.out.plan = <<>>

\* the last planning went wrong: the language model was not reached, or its
\* invocation raised
PlanningWentWrong ==
    /\ g_last.called
    /\ \/ ~g_last.out.invoked
       \/ g_last.answer.kind = "raises"

\* C36: a planning that went wrong hands the caller a plan without steps and
\* raises nothing, and execute_plan on that plan returns true without a step
\* attempted, a client method invoked or a pause taken: what the caller sees is
\* what it sees for a command that needs no action.
C36_FailedPlanningLooksLikeNoOp ==
    PlanningWentWrong =>
        /\ g_last.out.raised = ""
        /\ g_last.out.plan = <<>>
        /\ ~g_last.executed => p_result = "idle"
        /\ g_last.executed =>
              /\ p_plan = <<>>
              /\ p_result = "true"
              /\ p_attempts = <<>>
              /\ p_client = <<>>
              /\ p_sleeps = 0

\* a planning that failed, for a command the language model had two steps
\* for, was executed and reported as a success
C36_Witness ==
    /\ PlanningWentWrong
    /\ g_last.out.caught # ""
    /\ Len(g_last.answer.plan) = 2
    /\ g_last.executed
    /\ p_result = "true"

-----------------------------------------------------------------------------
(* Properties of MissionExecutor._execute_single_step (SpecPlan) *)

\* the params of a step satisfy the schema of its tool; the tools made with
\* Tool(...) declare no schema
ParamsSatisfySchema(action) ==
    LET tool == ToolsMap(action.func) IN
    tool.kind = "structured" => Validate(tool.schema, action.params).ok

\* the client methods invoked for step j
ClientCallsOfStep(j) == {k \in 1..Len(p_client) : p_client[k].i = j}

\* C33: a step is reported as a success exactly when its func is in the
\* catalog, its params satisfy the schema of that tool, and the client method
\* returns without raising; the client method is then invoked once, and it is
\* not invoked for a step whose tool is missing or whose params violate the
\* schema.
C33_StepSucceedsExactlyWhenValid ==
    \A j \in 1..Len(p_attempts) :
        LET action == p_plan[j]
            valid  == action.func \in ToolNames /\ ParamsSatisfySchema(action)
        IN  /\ p_attempts[j].success <=> (valid /\ p_attempts[j].body = "return")
            /\ p_attempts[j].success => Cardinality(ClientCallsOfStep(j)) = 1
            /\ ~valid => ClientCallsOfStep(j) = {}

\* the half of it that the code keeps: no client method is invoked for a step
\* whose tool is missing or whose params violate the schema, and a step that
\* is reported as a success has invoked its client method once
InvalidStepNeverReachesClient ==
    \A j \in 1..Len(p_attempts) :
        LET action == p_plan[j]
            valid  == action.func \in ToolNames /\ ParamsSatisfySchema(action)
        IN  /\ p_attempts[j].success => Cardinality(ClientCallsOfStep(j)) = 1
            /\ p_attempts[j].success => (valid /\ p_attempts[j].body = "return")
            /\ ~valid => ClientCallsOfStep(j) = {}

\* a take_off step with valid params whose client method would have returned
\* is reported as a failure, and the client method was not invoked
ValidTakeOffFails ==
    /\ Len(p_attempts) >= 1
    /\ p_plan[1].func = n_take_off
    /\ ParamsSatisfySchema(p_plan[1])
    /\ p_attempts[1].body = "return"
    /\ ~p_attempts[1].success
    /\ p_client = <<>>

-----------------------------------------------------------------------------
(* Properties of the snapshot without a battery field (Spec) *)

\* the last iteration went through the rules with a snapshot that has no
\* field named battery
NoBatteryField ==
    /\ ticks > 0
    /\ TickDecided
    /\ "battery" \notin Keys(c_tick.status)

\* the functions dispatched by the last iteration, in order
TickFuncs == [k \in 1..Len(c_tick.calls) |-> c_tick.calls[k].func]

\* C34: an iteration whose snapshot has no field named battery is not taken
\* for a low battery, whatever other fields it has: return_home is dispatched
\* only when the completion flag was set, and otherwise the iteration is the
\* avoidance for a snapshot with an obstacle, the approach of the first target
\* for one with targets, and the question to the language model for the rest;
\* the loop goes on.
C34_NoBatteryFieldIsFullBattery ==
    NoBatteryField =>
        IF c_tick.flag_before
        THEN TickFuncs = <<n_return_home>> /\ pc = "returned"
        ELSE /\ \A k \in 1..Len(TickFuncs) : TickFuncs[k] # n_return_home
             /\ pc # "returned"
             /\ IF Truthy(Get(c_tick.status, "obstacle_detected", Bool(FALSE)))
                THEN TickFuncs = <<n_avoid_obstacle>> /\ ~c_tick.oracle
                ELSE IF Truthy(Get(c_tick.status, "visual_targets", List(<<>>)))
                THEN /\ ~c_tick.oracle
                     /\ TickFuncs # <<>> => TickFuncs[1] = n_move_to
                ELSE c_tick.oracle

\* a snapshot that reports battery_level 5 and no battery goes to the
\* language model for a move
C34_Witness ==
    /\ NoBatteryField
    /\ Get(c_tick.status, "battery_level", PyNone) = Num(5)
    /\ ~c_tick.flag_before
    /\ c_tick.oracle
    /\ TickFuncs = <<n_move_to>>
    /\ pc = "loop"

-----------------------------------------------------------------------------
(* Properties of the take-off (Spec) *)

\* the readiness query returned a payload whose state is not "error"
ReadinessPassed ==
    /\ c_ready # NoReady
    /\ c_ready.kind = "return"
    /\ IsDict(c_ready.data)
    /\ Get(c_ready.data, "state", PyNone) # Text("error")

\* the loop is about to read its first snapshot
BeforeFirstSnapshot == pc = "loop" /\ ticks = 0

\* an iteration can start now and dispatch func first
CanDispatchNext(func) ==
    ENABLED (Tick /\ c_tick'.calls # <<>> /\ c_tick'.calls[1].func = func)

\* C35: a run that passed the readiness check has dispatched take_off once,
\* for the drone of the mission and altitude 10, when the loop is about to
\* read its first snapshot, and no iteration dispatches take_off again.  The
\* loop is entered whether the take-off succeeded or not, and its first
\* iteration can dispatch the avoidance, a move or the return home.
C35_TakeOffOnceThenLoop ==
    /\ (ReadinessPassed /\ ticks = 0) =>
          /\ BeforeFirstSnapshot
          /\ Len(c_tick.calls) = 1
          /\ c_tick.calls[1].func = n_take_off
          /\ c_tick.calls[1].params = Dict([drone_id |-> DroneId, altitude |-> Num(10)])
          /\ CanDispatchNext(n_avoid_obstacle)
          /\ CanDispatchNext(n_move_to)
          /\ CanDispatchNext(n_return_home)
    /\ ticks > 0 =>
          /\ ReadinessPassed
          /\ \A k \in 1..Len(c_tick.calls) : c_tick.calls[k].func # n_take_off

\* the take-off failed and the loop is entered all the same
C35_Witness ==
    /\ ReadinessPassed
    /\ BeforeFirstSnapshot
    /\ ~c_tick.calls[1].success
    /\ CanDispatchNext(n_move_to)

-----------------------------------------------------------------------------
(* Properties of the result dict of UAVExecutor.execute (SpecDispatch) *)

\* the last call of execute returned
ExecuteReturned == d_n > 0 /\ d_last.out.raised = ""

\* a Python str made by str(e) or by a format string; it can be empty
IsMessage(x) == x # PyNone /\ x.t = "text"

EmptyErrorMessage ==
    /\ ExecuteReturned
    /\ ~d_last.out.result.success
    /\ d_last.out.result.error = ErrText("", "")

-----------------------------------------------------------------------------
(* Properties of the saved interaction records (SpecNlp, Spec) *)

\* the record of the last parse_instruction call was written
ParseRecordSaved == n_count > 0 /\ n_last.log.written

\* the plan parse_instruction makes of a parsed answer: the answer when it is
\* an object with a mission_steps key, the answer under that key when it is a
\* list, the one-element list of it when it is another object, and the empty
\* list for anything else
PlanMadeOf(value) ==
    CASE value.t = "list" -> Dict([mission_steps |-> value])
      [] value.t = "dict" /\ "mission_steps" \in DOMAIN value.d -> value
      [] value.t = "dict" /\ "mission_steps" \notin DOMAIN value.d ->
            Dict([mission_steps |-> List(<<value>>)])
      [] OTHER -> Dict([mission_steps |-> List(<<>>)])

\* what is common to the two readings of the record: success, error_message
\* and raw_response
ParseRecordFlags ==
    LET log == n_last.log IN
    /\ log.success <=> (~n_last.answer.fails /\ LastParsed.ok)
    /\ log.success => log.error_message = PyNone
    /\ ~log.success => (log.parsed_output = PyNone /\ log.error_message # PyNone)
    /\ log.raw_response = PyNone <=> n_last.answer.fails
    /\ ~n_last.answer.fails =>
          log.raw_response =
              Text(InArrivalOrder(n_last.answer.chunks, Len(n_last.answer.chunks)))

StrategyRecordConsistent ==
    (OracleCallEnded /\ c_log.written) =>
        /\ c_log.success <=> (~c_tick.answer.fails /\ ParseJson(StreamedText).ok)
        /\ c_log.success =>
              /\ c_log.parsed_output = ParseJson(StreamedText).value
              /\ c_log.error_message = PyNone
        /\ ~c_log.success => (c_log.parsed_output = PyNone /\ c_log.error_message # PyNone)
        /\ c_log.raw_response = PyNone <=> c_tick.answer.fails

=============================================================================
